---- MODULE Spec2Model ----
(***************************************************************************)
(* Model of the metadata cleaner in src/cleaners.py.                       *)
(*                                                                         *)
(* A file is the byte sequence on disk.  Bytes are the naturals 0..255 and *)
(* the walkers below read them exactly as the Python code does: a read     *)
(* position, f.read(n) returning at most n bytes, f.seek moving past the   *)
(* end without error.  A ZIP archive is its magic plus the sequence of its *)
(* entries (what zipfile decodes), an OLE compound file is its magic plus  *)
(* the set of its root streams (what StgOpenStorage exposes).              *)
(*                                                                         *)
(* SHA-256 is modelled by its preimage: two digests are equal iff the      *)
(* bytes fed to the hash are equal.                                        *)
(*                                                                         *)
(* The external tool (ExifTool) is not part of the source: what it answers *)
(* and whether it rewrites the file are nondeterministic, and a rewrite is *)
(* recorded in the file's rev counter.  The PDF library is absent in every *)
(* run (the PDF handlers that need it are not modelled), and no input is a *)
(* Word 2003 XML document.  Removing an open temp file succeeds, as on     *)
(* POSIX systems.                                                          *)
(***************************************************************************)
EXTENDS Integers, Sequences, FiniteSets, TLC

VARIABLES
    cap,      \* capabilities: [exiftool, pywin32, pikepdf], fixed for a run
    ext,      \* lower-cased suffix of the target path (Path(path).suffix.lower())
    file,     \* content of the target path
    baks,     \* backup siblings: [n, f], n = 0 for <path>.bak, n for <path>.bak.<n>, f the content
    tmps,     \* temp files and temp directories present in the target's directory
    pc,       \* position of the call in progress ("idle" between calls)
    ctx,      \* locals of the call in progress
    res,      \* outcome of the last clean_file_metadata call
    pre,      \* the directory, the report, the hash and the previous call's frame and
              \* outcome as they were when the last clean_file_metadata call began
    det,      \* DetectionReport of the file as it is now (done = FALSE: not yet run)
    hsh,      \* content hash of the file as it is now (done = FALSE: not yet run)
    ncalls    \* number of clean_file_metadata calls made

vars == <<cap, ext, file, baks, tmps, pc, ctx, res, pre, det, hsh, ncalls>>

-----------------------------------------------------------------------------
(* Bounds of the model *)

\* clean_file_metadata calls per run
MaxCalls == 2
\* marker units after SOI in a modelled JPEG input
MaxJpegUnits == 2
\* chunks after the signature in a modelled PNG input
MaxPngUnits == 2
\* blocks after the logical screen descriptor in a modelled GIF input
MaxGifUnits == 2
\* fragments after the {\rtf1 header in a modelled RTF input
MaxRtfFrags == 4
\* entries of a modelled OOXML archive
MaxZipParts == 2
MaxXmlNodes == 3

-----------------------------------------------------------------------------
(* Bytes and file reads *)

None == "None"

Min(a, b) == IF a < b THEN a ELSE b

\* f.read(n) at offset p (p bytes already consumed): at most n bytes, fewer at EOF
Read(s, p, n) == SubSeq(s, p + 1, Min(p + n, Len(s)))

\* f.read() at offset p: everything up to EOF
ReadAll(s, p) == SubSeq(s, p + 1, Len(s))

\* bytes.startswith
StartsWith(s, lit) == Len(s) >= Len(lit) /\ SubSeq(s, 1, Len(lit)) = lit

\* str.startswith(lit, i) for a 0-based index i
StartsWithAt(s, lit, i) ==
    i + Len(lit) <= Len(s) /\ SubSeq(s, i + 1, i + Len(lit)) = lit

\* bytes.endswith
EndsWith(s, lit) ==
    Len(s) >= Len(lit) /\ SubSeq(s, Len(s) - Len(lit) + 1, Len(s)) = lit

\* lit in s
Contains(s, lit) == \E i \in 0..(Len(s) - Len(lit)) : StartsWithAt(s, lit, i)

\* struct.unpack('>H', b)
U16(b) == b[1] * 256 + b[2]

\* struct.unpack('>I', b)
U32(b) == ((b[1] * 256 + b[2]) * 256 + b[3]) * 256 + b[4]

\* lexicographic order of two byte strings (Python's str ordering on ASCII names)
RECURSIVE LexLess(_, _)
LexLess(a, b) ==
    IF b = <<>> THEN FALSE
    ELSE IF a = <<>> THEN TRUE
    ELSE IF a[1] # b[1] THEN a[1] < b[1]
    ELSE LexLess(Tail(a), Tail(b))

\* the concatenation of a sequence of byte strings
RECURSIVE Concat(_)
Concat(q) == IF q = <<>> THEN <<>> ELSE q[1] \o Concat(Tail(q))

-----------------------------------------------------------------------------
(* Literals of the source *)

SOI       == <<255, 216>>
JpegMagic == <<255, 216, 255>>
PngSig    == <<137, 80, 78, 71, 13, 10, 26, 10>>
Gif87a    == <<71, 73, 70, 56, 55, 97>>
Gif89a    == <<71, 73, 70, 56, 57, 97>>
PdfMagic  == <<37, 80, 68, 70, 45>>
RtfMagic  == <<123, 92, 114, 116, 102>>
PK        == <<80, 75>>
OleMagic  == <<208, 207, 17, 224>>
\* b'Exif\x00\x00'
ExifId    == <<69, 120, 105, 102, 0, 0>>
\* b'http://ns.adobe.com/xap/1.0/'
XmpNs     == <<104, 116, 116, 112, 58, 47, 47, 110, 115, 46, 97, 100, 111, 98, 101, 46,
               99, 111, 109, 47, 120, 97, 112, 47, 49, 46, 48, 47>>
\* b'Photoshop 3.0'
PsId      == <<80, 104, 111, 116, 111, 115, 104, 111, 112, 32, 51, 46, 48>>
T_tEXt    == <<116, 69, 88, 116>>
T_iTXt    == <<105, 84, 88, 116>>
T_zTXt    == <<122, 84, 88, 116>>
T_tIME    == <<116, 73, 77, 69>>
T_IDAT    == <<73, 68, 65, 84>>

-----------------------------------------------------------------------------
(* Files *)

RawFile(b)  == [kind |-> "raw", bytes |-> b, parts |-> <<>>, streams |-> {}, rev |-> 0]
ZipArchive(ps) == [kind |-> "zip", bytes |-> PK, parts |-> ps, streams |-> {}, rev |-> 0]
OleFile(ss) == [kind |-> "ole", bytes |-> OleMagic, parts |-> <<>>, streams |-> ss, rev |-> 0]

\* a ZIP entry: its name (bytes of the file name) and its content
Part(n, d) == [name |-> n, data |-> d]

\* content of an entry that is not parsable XML: its bytes
Opaque(b) == [xml |-> FALSE, bytes |-> b, refs |-> <<>>, ser |-> "orig", els |-> {}]

\* content of a parsable XML control part: the PartName / Target attributes of
\* its Override / Relationship children in document order; ser tells whether
\* the bytes are the author's ("orig") or ElementTree's serialisation ("et")
Xml(refs, ser) == [xml |-> TRUE, bytes |-> <<>>, refs |-> refs, ser |-> ser, els |-> {}]

N_ContentTypes == <<91, 67, 111, 110, 116, 101, 110, 116, 95, 84, 121, 112, 101, 115, 93,
                    46, 120, 109, 108>>
N_RootRels     == <<95, 114, 101, 108, 115, 47, 46, 114, 101, 108, 115>>
N_Core         == <<100, 111, 99, 80, 114, 111, 112, 115, 47, 99, 111, 114, 101, 46, 120,
                    109, 108>>
N_App          == <<100, 111, 99, 80, 114, 111, 112, 115, 47, 97, 112, 112, 46, 120, 109,
                    108>>
N_Custom       == <<100, 111, 99, 80, 114, 111, 112, 115, 47, 99, 117, 115, 116, 111, 109,
                    46, 120, 109, 108>>
N_Thumb        == <<100, 111, 99, 80, 114, 111, 112, 115, 47, 116, 104, 117, 109, 98, 110,
                    97, 105, 108, 46, 106, 112, 101, 103>>
N_WordDoc      == <<119, 111, 114, 100, 47, 100, 111, 99, 117, 109, 101, 110, 116, 46, 120,
                    109, 108>>
N_XlWorkbook   == <<120, 108, 47, 119, 111, 114, 107, 98, 111, 111, 107, 46, 120, 109, 108>>
N_PptPres      == <<112, 112, 116, 47, 112, 114, 101, 115, 101, 110, 116, 97, 116, 105, 111,
                    110, 46, 120, 109, 108>>
N_WordRels     == <<119, 111, 114, 100, 47, 95, 114, 101, 108, 115, 47, 100, 111, 99, 117,
                    109, 101, 110, 116, 46, 120, 109, 108, 46, 114, 101, 108, 115>>
\* 'docProps/'
P_DocProps     == <<100, 111, 99, 80, 114, 111, 112, 115, 47>>
\* '/docProps/'
P_SlashDocProps == <<47, 100, 111, 99, 80, 114, 111, 112, 115, 47>>
\* 'docProps/thumbnail.'
P_Thumb        == <<100, 111, 99, 80, 114, 111, 112, 115, 47, 116, 104, 117, 109, 98, 110,
                    97, 105, 108, 46>>
\* 'w:wordDocument'
L_wordDocument == <<119, 58, 119, 111, 114, 100, 68, 111, 99, 117, 109, 101, 110, 116>>
\* 'wordml'
L_wordml       == <<119, 111, 114, 100, 109, 108>>
\* 'http://schemas.microsoft.com/office/word'
L_msword       == <<104, 116, 116, 112, 58, 47, 47, 115, 99, 104, 101, 109, 97, 115, 46, 109,
                    105, 99, 114, 111, 115, 111, 102, 116, 46, 99, 111, 109, 47, 111, 102,
                    102, 105, 99, 101, 47, 119, 111, 114, 100>>
\* '<?xml'
L_xmldecl      == <<60, 63, 120, 109, 108>>

\* z.namelist()
namelist(f) == [i \in 1..Len(f.parts) |-> f.parts[i].name]

NameSet(f) == {f.parts[i].name : i \in 1..Len(f.parts)}

-----------------------------------------------------------------------------
(* Format classifier *)

\* _magic(path, n): the first n bytes
_magic(f, n) == Read(f.bytes, 0, n)

\* ZipFile(path) succeeds only on an archive
_detect_ooxml_from_zip(f) ==
    IF f.kind # "zip" THEN None
    ELSE IF N_WordDoc \in NameSet(f) THEN "docx"
    ELSE IF N_XlWorkbook \in NameSet(f) THEN "xlsx"
    ELSE IF N_PptPres \in NameSet(f) THEN "pptx"
    ELSE None

\* data.decode('utf-8', errors='ignore') of bytes whose high-bit bytes are
\* all malformed sequences: they are dropped
DecodeUtf8Ignore(b) == SelectSeq(b, LAMBDA x : x < 128)

\* _is_word2003xml searching the whole file instead of its first 8192 bytes
IsWord2003XmlAnywhere(f) ==
    LET text == DecodeUtf8Ignore(f.bytes)
    IN  Contains(text, L_wordDocument)
        \/ (Contains(text, L_wordml) /\ Contains(text, L_msword))

_is_word2003xml(f) ==
    LET text == DecodeUtf8Ignore(Read(f.bytes, 0, 8192))
    IN  Contains(text, L_wordDocument)
        \/ (Contains(text, L_wordml) /\ Contains(text, L_msword))

\* bytes.lstrip(): leading ASCII whitespace removed
RECURSIVE lstrip(_)
lstrip(b) ==
    IF b # <<>> /\ b[1] \in {9, 10, 11, 12, 13, 32} THEN lstrip(Tail(b)) ELSE b

\* _file_type asking the extension before the magic bytes
FileTypeExtensionFirst(f, e) ==
    LET head == _magic(f, 64)
        ooxml == IF StartsWith(head, PK) /\ e \in {".doc", ".xls", ".ppt"}
                 THEN _detect_ooxml_from_zip(f) ELSE None
    IN  IF ooxml # None THEN ooxml
        ELSE IF e = ".doc" THEN "doc"
        ELSE IF e = ".xls" THEN "xls"
        ELSE IF e = ".ppt" THEN "ppt"
        ELSE IF e = ".docx" THEN "docx"
        ELSE IF e = ".xlsx" THEN "xlsx"
        ELSE IF e = ".pptx" THEN "pptx"
        ELSE IF StartsWith(head, JpegMagic) THEN "jpeg"
        ELSE IF StartsWith(head, PngSig) THEN "png"
        ELSE IF StartsWith(head, Gif87a) \/ StartsWith(head, Gif89a) THEN "gif"
        ELSE IF StartsWith(head, PdfMagic) THEN "pdf"
        ELSE IF StartsWith(head, RtfMagic) THEN "rtf"
        ELSE IF (StartsWith(lstrip(head), L_xmldecl) \/ StartsWith(lstrip(head), <<60>>))
                /\ _is_word2003xml(f) THEN "word2003xml"
        ELSE "other"

_file_type(f, e) ==
    LET head == _magic(f, 64)
        ooxml == IF StartsWith(head, PK) /\ e \in {".doc", ".xls", ".ppt"}
                 THEN _detect_ooxml_from_zip(f) ELSE None
    IN  IF StartsWith(head, JpegMagic) THEN "jpeg"
        ELSE IF StartsWith(head, PngSig) THEN "png"
        ELSE IF StartsWith(head, Gif87a) \/ StartsWith(head, Gif89a) THEN "gif"
        ELSE IF StartsWith(head, PdfMagic) THEN "pdf"
        ELSE IF StartsWith(head, RtfMagic) THEN "rtf"
        ELSE IF ooxml # None THEN ooxml
        ELSE IF e = ".doc" THEN "doc"
        ELSE IF e = ".xls" THEN "xls"
        ELSE IF e = ".ppt" THEN "ppt"
        ELSE IF e = ".docx" THEN "docx"
        ELSE IF e = ".xlsx" THEN "xlsx"
        ELSE IF e = ".pptx" THEN "pptx"
        ELSE IF (StartsWith(lstrip(head), L_xmldecl) \/ StartsWith(lstrip(head), <<60>>))
                /\ _is_word2003xml(f) THEN "word2003xml"
        ELSE "other"

-----------------------------------------------------------------------------
(* JPEG *)

\* the test of _clean_jpeg on one segment: APP1 with Exif or XMP, APP13 with PSIR
JpegDrop(marker, seg_data) ==
    \/ marker[2] = 225 /\ (StartsWith(seg_data, ExifId) \/ Contains(seg_data, XmpNs))
    \/ marker[2] = 237 /\ StartsWith(seg_data, PsId)

\* f.read(length - 2): a ValueError for length 0 (read(-2)), the rest of the
\* file for length 1 (read(-1)), else at most length - 2 bytes
JpegSegData(s, p, length) ==
    IF length = 1 THEN ReadAll(s, p) ELSE Read(s, p, length - 2)

\* the marker loop of _detect_jpeg from offset p; bad tells that the walk met a
\* byte that is no marker or a length field below 2
RECURSIVE detect_jpeg_loop(_, _, _, _, _)
detect_jpeg_loop(s, p, exif, xmp, iptc) ==
    LET marker == Read(s, p, 2)
        done == [exif |-> exif, xmp |-> xmp, iptc |-> iptc, raised |-> FALSE,
                 bad |-> FALSE]
    IN  IF Len(marker) < 2 THEN done
        ELSE IF marker[1] # 255 THEN [done EXCEPT !.bad = TRUE]
        ELSE IF marker[2] = 218 THEN done
        ELSE IF marker[2] \in {216, 217} THEN detect_jpeg_loop(s, p + 2, exif, xmp, iptc)
        ELSE LET length_bytes == Read(s, p + 2, 2) IN
             IF Len(length_bytes) < 2 THEN done
             ELSE LET length == U16(length_bytes) IN
                  IF length = 0 THEN [done EXCEPT !.raised = TRUE, !.bad = TRUE]
                  ELSE LET seg_data == JpegSegData(s, p + 4, length)
                           rest == detect_jpeg_loop(s, p + 4 + Len(seg_data),
                               exif \/ (marker[2] = 225 /\ StartsWith(seg_data, ExifId)),
                               xmp \/ (marker[2] = 225 /\ Contains(seg_data, XmpNs)),
                               iptc \/ (marker[2] = 237 /\ StartsWith(seg_data, PsId)))
                       IN  IF length < 2 THEN [rest EXCEPT !.bad = TRUE] ELSE rest

_detect_jpeg(f) ==
    IF Read(f.bytes, 0, 2) # SOI
    THEN [exif |-> FALSE, xmp |-> FALSE, iptc |-> FALSE, raised |-> FALSE, bad |-> FALSE]
    ELSE detect_jpeg_loop(f.bytes, 2, FALSE, FALSE, FALSE)

\* the marker loop of _clean_jpeg from offset p; out is what was written to the
\* temp file so far
RECURSIVE clean_jpeg_loop(_, _, _, _)
clean_jpeg_loop(s, p, out, changed) ==
    LET marker == Read(s, p, 2)
        done == [out |-> out, changed |-> changed, raised |-> FALSE, bad |-> FALSE]
    IN  IF Len(marker) < 2 THEN done
        \* no 0xFF where a marker is expected: break
        ELSE IF marker[1] # 255 THEN [done EXCEPT !.bad = TRUE]
        ELSE IF marker[2] = 218
             THEN [done EXCEPT !.out = out \o marker \o ReadAll(s, p + 2)]
        ELSE IF marker[2] \in {216, 217}
             THEN clean_jpeg_loop(s, p + 2, out \o marker, changed)
        ELSE LET length_bytes == Read(s, p + 2, 2) IN
             IF Len(length_bytes) < 2 THEN done
             ELSE LET length == U16(length_bytes) IN
                  IF length = 0 THEN [done EXCEPT !.raised = TRUE]
                  ELSE LET seg_data == JpegSegData(s, p + 4, length)
                           drop == JpegDrop(marker, seg_data)
                       IN  clean_jpeg_loop(s, p + 4 + Len(seg_data),
                               IF drop THEN out
                               ELSE out \o marker \o length_bytes \o seg_data,
                               changed \/ drop)

\* the walk of _clean_jpeg after the SOI check: the temp file's bytes, whether
\* a segment was dropped, whether the walk raised, whether it stopped at a byte
\* that is no marker
CleanJpegWalk(f) == clean_jpeg_loop(f.bytes, 2, SOI, FALSE)

\* the marker loop of _hash_jpeg_scan: the bytes fed to the hash.  f.seek(length - 2, 1)
\* moves back for length < 2 and never fails here (the offset stays positive)
RECURSIVE hash_jpeg_loop(_, _)
hash_jpeg_loop(s, p) ==
    LET marker == Read(s, p, 2)
    IN  IF Len(marker) < 2 THEN <<>>
        ELSE IF marker[1] # 255 THEN <<>>
        ELSE IF marker[2] = 218 THEN marker \o ReadAll(s, p + 2)
        ELSE IF marker[2] \in {216, 217} THEN hash_jpeg_loop(s, p + 2)
        ELSE LET lb == Read(s, p + 2, 2) IN
             IF Len(lb) < 2 THEN <<>>
             ELSE hash_jpeg_loop(s, p + 4 + (U16(lb) - 2))

\* _hash_file: the whole file
_hash_file(f) == [bytes |-> f.bytes, parts |-> f.parts, streams |-> f.streams, rev |-> f.rev]

\* a digest over bytes only
BytesDigest(b) == [bytes |-> b, parts |-> <<>>, streams |-> {}, rev |-> 0]

_hash_jpeg_scan(f) ==
    IF Read(f.bytes, 0, 2) # SOI THEN _hash_file(f)
    ELSE BytesDigest(hash_jpeg_loop(f.bytes, 2))

-----------------------------------------------------------------------------
(* PNG *)

PngMetaTypes == {T_tEXt, T_iTXt, T_zTXt, T_tIME}

\* the chunk loop of _detect_png from offset p
RECURSIVE detect_png_loop(_, _, _, _)
detect_png_loop(s, p, text_chunks, time_chunks) ==
    LET len_bytes == Read(s, p, 4)
        done == [text |-> text_chunks, time |-> time_chunks]
    IN  IF Len(len_bytes) < 4 THEN done
        ELSE LET length == U32(len_bytes)
                 type_bytes == Read(s, p + 4, 4)
             IN  IF Len(type_bytes) < 4 THEN done
                 ELSE detect_png_loop(s, p + 8 + length + 4,
                          text_chunks + (IF type_bytes \in {T_tEXt, T_iTXt, T_zTXt} THEN 1 ELSE 0),
                          time_chunks + (IF type_bytes = T_tIME THEN 1 ELSE 0))

_detect_png(f) ==
    IF Read(f.bytes, 0, 8) # PngSig THEN [text |-> 0, time |-> 0]
    ELSE detect_png_loop(f.bytes, 8, 0, 0)

\* the chunk loop of _clean_png from offset p
RECURSIVE clean_png_loop(_, _, _, _)
clean_png_loop(s, p, out, changed) ==
    LET len_bytes == Read(s, p, 4)
    IN  IF Len(len_bytes) < 4 THEN [out |-> out, changed |-> changed, raised |-> FALSE]
        ELSE LET length == U32(len_bytes)
                 ctype == Read(s, p + 4, 4)
                 data == Read(s, p + 4 + Len(ctype), length)
                 crc == Read(s, p + 4 + Len(ctype) + Len(data), 4)
                 q == p + 4 + Len(ctype) + Len(data) + Len(crc)
             IN  IF ctype \in PngMetaTypes
                 THEN clean_png_loop(s, q, out, TRUE)
                 ELSE clean_png_loop(s, q, out \o len_bytes \o ctype \o data \o crc, changed)

CleanPngWalk(f) == clean_png_loop(f.bytes, 8, PngSig, FALSE)

\* the chunk loop of _hash_png_idat: the IDAT payloads fed to the hash
RECURSIVE hash_png_loop(_, _)
hash_png_loop(s, p) ==
    LET len_bytes == Read(s, p, 4)
    IN  IF Len(len_bytes) < 4 THEN <<>>
        ELSE LET length == U32(len_bytes)
                 ctype == Read(s, p + 4, 4)
                 data == Read(s, p + 4 + Len(ctype), length)
                 crc == Read(s, p + 4 + Len(ctype) + Len(data), 4)
             IN  IF Len(ctype) < 4 \/ Len(data) < length \/ Len(crc) < 4 THEN <<>>
                 ELSE (IF ctype = T_IDAT THEN data ELSE <<>>)
                      \o hash_png_loop(s, p + 12 + length)

_hash_png_idat(f) ==
    IF Read(f.bytes, 0, 8) # PngSig THEN _hash_file(f)
    ELSE BytesDigest(hash_png_loop(f.bytes, 8))

-----------------------------------------------------------------------------
(* GIF *)

RECURSIVE Pow2(_)
Pow2(n) == IF n = 0 THEN 1 ELSE 2 * Pow2(n - 1)

\* 3 * (2 ** ((packed & 0x07) + 1)) if (packed & 0x80) != 0 else 0
ColorTableSize(packed) == IF packed >= 128 THEN 3 * Pow2((packed % 8) + 1) ELSE 0

\* _skip_sub_blocks from offset p: the offset it leaves
RECURSIVE _skip_sub_blocks(_, _)
_skip_sub_blocks(s, p) ==
    LET szb == Read(s, p, 1)
    IN  IF szb = <<>> THEN p
        ELSE IF szb[1] = 0 THEN p + 1
        ELSE _skip_sub_blocks(s, p + 1 + szb[1])

\* _copy_sub_blocks from offset p: the offset it leaves and the bytes it wrote
RECURSIVE _copy_sub_blocks(_, _, _)
_copy_sub_blocks(s, p, out) ==
    LET szb == Read(s, p, 1)
    IN  IF szb = <<>> THEN [p |-> p, out |-> out]
        ELSE IF szb[1] = 0 THEN [p |-> p + 1, out |-> out \o szb]
        ELSE LET blk == Read(s, p + 1, szb[1])
             IN  _copy_sub_blocks(s, p + 1 + Len(blk), out \o szb \o blk)

\* the block loop of _detect_gif_comments from offset p; bad tells that the
\* walk stopped at an unknown block introducer
RECURSIVE detect_gif_loop(_, _, _)
detect_gif_loop(s, p, comments) ==
    LET introducer == Read(s, p, 1)
        done == [comments |-> comments, bad |-> FALSE]
    IN  IF introducer = <<>> THEN done
        ELSE IF introducer[1] = 59 THEN done
        ELSE IF introducer[1] = 44
             THEN LET packed == Read(s, p + 10, 1) IN
                  IF packed = <<>> THEN done
                  ELSE detect_gif_loop(s,
                           _skip_sub_blocks(s, p + 11 + ColorTableSize(packed[1]) + 1),
                           comments)
        ELSE IF introducer[1] = 33
             THEN LET label == Read(s, p + 1, 1) IN
                  IF label = <<>> THEN done
                  ELSE detect_gif_loop(s, _skip_sub_blocks(s, p + 2),
                           comments + (IF label[1] = 254 THEN 1 ELSE 0))
        ELSE [done EXCEPT !.bad = TRUE]

\* the walk of _detect_gif_comments
DetectGifWalk(f) ==
    LET hdr == Read(f.bytes, 0, 6)
        lsd == Read(f.bytes, 6, 7)
    IN  IF hdr \notin {Gif87a, Gif89a} THEN [comments |-> 0, bad |-> FALSE]
        ELSE IF Len(lsd) < 7 THEN [comments |-> 0, bad |-> FALSE]
        ELSE detect_gif_loop(f.bytes, 13 + ColorTableSize(lsd[5]), 0)

_detect_gif_comments(f) == DetectGifWalk(f).comments

\* the block loop of _clean_gif from offset p
RECURSIVE clean_gif_loop(_, _, _, _)
clean_gif_loop(s, p, out, changed) ==
    LET introducer == Read(s, p, 1)
        done == [out |-> out, changed |-> changed, raised |-> FALSE, bad |-> FALSE]
    IN  IF introducer = <<>> THEN done
        ELSE IF introducer[1] = 59 THEN [done EXCEPT !.out = out \o introducer]
        ELSE IF introducer[1] = 44
             THEN LET desc == Read(s, p + 1, 9)
                      packed2 == Read(s, p + 1 + Len(desc), 1)
                  IN  IF packed2 = <<>>
                      \* packed2[0] on an empty read: IndexError
                      THEN [out |-> out \o introducer \o desc, changed |-> changed,
                            raised |-> TRUE, bad |-> FALSE]
                      ELSE LET q == p + 1 + Len(desc) + 1
                               lct == Read(s, q, ColorTableSize(packed2[1]))
                               lzw == Read(s, q + Len(lct), 1)
                               cp == _copy_sub_blocks(s, q + Len(lct) + Len(lzw),
                                         out \o introducer \o desc \o packed2 \o lct \o lzw)
                           IN  clean_gif_loop(s, cp.p, cp.out, changed)
        ELSE IF introducer[1] = 33
             THEN LET label == Read(s, p + 1, 1) IN
                  IF label = <<>> THEN done
                  ELSE IF label[1] = 254
                       THEN clean_gif_loop(s, _skip_sub_blocks(s, p + 2), out, TRUE)
                       ELSE LET cp == _copy_sub_blocks(s, p + 2, out \o introducer \o label)
                            IN  clean_gif_loop(s, cp.p, cp.out, changed)
        \* unknown block introducer: break
        ELSE [done EXCEPT !.bad = TRUE]

\* the walk of _clean_gif: "early" when the header or descriptor check returns
\* False (the temp file is removed first)
CleanGifWalk(f) ==
    LET hdr == Read(f.bytes, 0, 6)
        lsd == Read(f.bytes, 6, 7)
    IN  IF hdr \notin {Gif87a, Gif89a} \/ Len(lsd) < 7
        THEN [out |-> <<>>, changed |-> FALSE, raised |-> FALSE, bad |-> FALSE,
              early |-> TRUE]
        ELSE LET gct == Read(f.bytes, 13, ColorTableSize(lsd[5]))
                 w == clean_gif_loop(f.bytes, 13 + Len(gct), hdr \o lsd \o gct, FALSE)
             IN  [out |-> w.out, changed |-> w.changed, raised |-> w.raised,
                  bad |-> w.bad, early |-> FALSE]

\* the block loop of _hash_gif_no_comments from offset p: the bytes fed to the hash
RECURSIVE hash_gif_loop(_, _)
hash_gif_loop(s, p) ==
    LET introducer == Read(s, p, 1)
    IN  IF introducer = <<>> THEN <<>>
        ELSE IF introducer[1] = 59 THEN introducer
        ELSE IF introducer[1] = 44
             THEN LET desc == Read(s, p + 1, 9)
                      packed2 == Read(s, p + 1 + Len(desc), 1)
                  IN  IF packed2 = <<>> THEN introducer \o desc
                      ELSE LET q == p + 1 + Len(desc) + 1
                               lct == Read(s, q, ColorTableSize(packed2[1]))
                               mcs == Read(s, q + Len(lct), 1)
                           IN  IF mcs = <<>>
                               THEN introducer \o desc \o packed2 \o lct
                               ELSE LET cp == _copy_sub_blocks(s, q + Len(lct) + 1, <<>>)
                                    IN  introducer \o desc \o packed2 \o lct \o mcs
                                        \o cp.out \o hash_gif_loop(s, cp.p)
        ELSE IF introducer[1] = 33
             THEN LET label == Read(s, p + 1, 1) IN
                  IF label = <<>> THEN <<>>
                  ELSE IF label[1] = 254
                       THEN hash_gif_loop(s, _skip_sub_blocks(s, p + 2))
                       ELSE LET cp == _copy_sub_blocks(s, p + 2, <<>>)
                            IN  introducer \o label \o cp.out \o hash_gif_loop(s, cp.p)
        ELSE <<>>

_hash_gif_no_comments(f) ==
    LET hdr == Read(f.bytes, 0, 6)
        lsd == Read(f.bytes, 6, 7)
    IN  IF hdr \notin {Gif87a, Gif89a} THEN _hash_file(f)
        ELSE IF Len(lsd) < 7 THEN _hash_file(f)
        ELSE LET gct == Read(f.bytes, 13, ColorTableSize(lsd[5]))
             IN  BytesDigest(hdr \o lsd \o gct \o hash_gif_loop(f.bytes, 13 + Len(gct)))

-----------------------------------------------------------------------------
(* RTF *)

\* '\\info'
L_info == <<92, 105, 110, 102, 111>>

\* open(path, 'r', encoding='latin-1'): every byte is one character, and the
\* universal-newlines reader turns '\r\n' and a lone '\r' into '\n'
RECURSIVE _read_text_latin1(_)
_read_text_latin1(b) ==
    IF b = <<>> THEN <<>>
    ELSE IF b[1] = 13
         THEN IF Len(b) >= 2 /\ b[2] = 10
              THEN <<10>> \o _read_text_latin1(SubSeq(b, 3, Len(b)))
              ELSE <<10>> \o _read_text_latin1(Tail(b))
    ELSE <<b[1]>> \o _read_text_latin1(Tail(b))

\* open(tmp, 'w', encoding='latin-1', newline='\r\n').write(s): every '\n'
\* is written as '\r\n'
RECURSIVE WriteTextCrlf(_)
WriteTextCrlf(s) ==
    IF s = <<>> THEN <<>>
    ELSE (IF s[1] = 10 THEN <<13, 10>> ELSE <<s[1]>>) \o WriteTextCrlf(Tail(s))

\* the inner while loop of _rtf_strip_info / _rtf_info_blocks: from index j at
\* the given depth, the index at which the group scan stops (0-based, may pass n)
RECURSIVE RtfGroupEnd(_, _, _)
RtfGroupEnd(s, j, depth) ==
    IF ~(j < Len(s) /\ depth > 0) THEN j
    ELSE LET c == s[j + 1] IN
         IF c = 92 THEN RtfGroupEnd(s, j + 2, depth)
         ELSE IF c = 123 THEN RtfGroupEnd(s, j + 1, depth + 1)
         ELSE IF c = 125 THEN RtfGroupEnd(s, j + 1, depth - 1)
         ELSE RtfGroupEnd(s, j + 1, depth)

\* the outer loop of _rtf_strip_info from index i
RECURSIVE rtf_strip_loop(_, _, _, _)
rtf_strip_loop(s, i, out, changed) ==
    IF ~(i < Len(s)) THEN [out |-> out, changed |-> changed]
    ELSE IF s[i + 1] = 123 /\ StartsWithAt(s, L_info, i + 1)
         THEN rtf_strip_loop(s, RtfGroupEnd(s, i + 1, 1), out, TRUE)
    ELSE IF s[i + 1] = 92 /\ i + 1 < Len(s)
         THEN rtf_strip_loop(s, i + 2, out \o <<s[i + 1], s[i + 2]>>, changed)
    ELSE rtf_strip_loop(s, i + 1, Append(out, s[i + 1]), changed)

_rtf_strip_info(s) == rtf_strip_loop(s, 0, <<>>, FALSE)

\* the outer loop of _rtf_info_blocks from index i: the blocks s[i:j]
RECURSIVE rtf_blocks_loop(_, _)
rtf_blocks_loop(s, i) ==
    IF ~(i < Len(s)) THEN <<>>
    ELSE IF s[i + 1] = 123 /\ StartsWithAt(s, L_info, i + 1)
         THEN LET j == RtfGroupEnd(s, i + 1, 1)
              IN  <<SubSeq(s, i + 1, Min(j, Len(s)))>> \o rtf_blocks_loop(s, j)
    ELSE rtf_blocks_loop(s, i + 1)

_rtf_info_blocks(s) == rtf_blocks_loop(s, 0)

RtfKeys == <<
        [key |-> <<92, 97, 117, 116, 104, 111, 114>>, label |-> "Author"],
        [key |-> <<92, 99, 111, 109, 112, 97, 110, 121>>, label |-> "Company"],
        [key |-> <<92, 116, 105, 116, 108, 101>>, label |-> "Title"],
        [key |-> <<92, 115, 117, 98, 106, 101, 99, 116>>, label |-> "Subject"],
        [key |-> <<92, 107, 101, 121, 119, 111, 114, 100, 115>>, label |-> "Keywords"],
        [key |-> <<92, 111, 112, 101, 114, 97, 116, 111, 114>>, label |-> "Operator"],
        [key |-> <<92, 99, 97, 116, 101, 103, 111, 114, 121>>, label |-> "Category"],
        [key |-> <<92, 100, 111, 99, 99, 111, 109, 109>>, label |-> "Comment"],
        [key |-> <<92, 99, 114, 101, 97, 116, 105, 109>>, label |-> "CreateTime"],
        [key |-> <<92, 114, 101, 118, 116, 105, 109>>, label |-> "ModTime"] >>

\* x in list
InSeq(x, q) == \E i \in 1..Len(q) : q[i] = x

\* the two nested for loops of _detect_rtf_info, block b and key k onwards
RECURSIVE detect_rtf_loop(_, _, _, _)
detect_rtf_loop(blocks, b, k, tags) ==
    IF b > Len(blocks) THEN tags
    ELSE IF k > Len(RtfKeys) THEN detect_rtf_loop(blocks, b + 1, 1, tags)
    ELSE detect_rtf_loop(blocks, b, k + 1,
             IF Contains(blocks[b], RtfKeys[k].key) /\ ~InSeq(RtfKeys[k].label, tags)
             THEN Append(tags, RtfKeys[k].label) ELSE tags)

_detect_rtf_info(f) ==
    detect_rtf_loop(_rtf_info_blocks(_read_text_latin1(f.bytes)), 1, 1, <<>>)

\* _clean_rtf up to the temp file: the bytes written and whether anything was stripped
CleanRtfWalk(f) ==
    LET r == _rtf_strip_info(_read_text_latin1(f.bytes))
    IN  [out |-> WriteTextCrlf(r.out), changed |-> r.changed]

\* stripped.encode('latin-1') of the stripped text
_hash_rtf_content(f) == BytesDigest(_rtf_strip_info(_read_text_latin1(f.bytes)).out)

-----------------------------------------------------------------------------
(* OOXML (docx / xlsx / pptx) *)

\* content of a docProps part: parsable XML with the given property elements
\* (els names them by the label the detector gives each)
Props(els) == [xml |-> TRUE, bytes |-> <<>>, refs |-> <<>>, ser |-> "orig", els |-> els]

\* zin.read(name): the content of the last entry of that name
ZipRead(f, n) ==
    LET idx == {i \in 1..Len(f.parts) : f.parts[i].name = n}
    IN  f.parts[CHOOSE i \in idx : \A k \in idx : k <= i].data

\* the test of _clean_office_props on one entry name
IsDocPropsPart(n) == n \in {N_Core, N_App, N_Custom} \/ StartsWith(n, P_Thumb)

\* ET.tostring of the tree left after removing the children whose attribute
\* starts with the prefix
StripRefs(d, prefix) ==
    [d EXCEPT !.refs = SelectSeq(d.refs, LAMBDA r : ~StartsWith(r, prefix)),
              !.ser = "et"]

\* _clean_office_props without its 'elif' for _rels/.rels: only the content
\* types are cleaned
CleanPartDataSkipsRels(f, n) ==
    LET data == ZipRead(f, n)
    IN  IF n = N_ContentTypes /\ data.xml THEN StripRefs(data, P_SlashDocProps) ELSE data

\* the data _clean_office_props writes for a surviving entry
CleanPartData(f, n) ==
    LET data == ZipRead(f, n)
    IN  IF n = N_ContentTypes
        THEN IF data.xml THEN StripRefs(data, P_SlashDocProps) ELSE data
        ELSE IF n = N_RootRels
        THEN IF data.xml THEN StripRefs(data, P_DocProps) ELSE data
        ELSE data

\* the for loop of _clean_office_props from entry i
RECURSIVE clean_office_loop(_, _, _, _)
clean_office_loop(f, i, out, removed) ==
    IF i > Len(f.parts) THEN [out |-> out, removed |-> removed]
    ELSE LET n == f.parts[i].name IN
         IF IsDocPropsPart(n) THEN clean_office_loop(f, i + 1, out, removed + 1)
         ELSE clean_office_loop(f, i + 1, Append(out, Part(n, CleanPartData(f, n))), removed)

\* the archive _clean_office_props writes to tmp_path and its count of removed entries
CleanOfficeWalk(f) ==
    LET w == clean_office_loop(f, 1, <<>>, 0)
    IN  [out |-> [f EXCEPT !.parts = w.out], removed |-> w.removed]

\* the labels one docProps part contributes
PartLabels(d, labels, fallback) ==
    IF d.xml THEN SelectSeq(labels, LAMBDA l : l \in d.els) ELSE <<fallback>>

CustomLabels(d) ==
    IF ~d.xml THEN <<"CustomProps">>
    ELSE IF d.els # {} THEN <<"CustomProps:" \o ToString(Cardinality(d.els))>>
    ELSE <<>>

_detect_office_props_details(f) ==
    IF f.kind # "zip" THEN [present |-> FALSE, summary |-> <<>>]
    ELSE LET names == NameSet(f)
             thumbs == {n \in names : StartsWith(n, P_Thumb)}
             CoreLabels == <<"Author", "LastModifiedBy", "Created", "Modified", "Title",
                             "Subject", "Keywords", "Category">>
             AppLabels == <<"Company", "Manager", "Application">>
         IN  [present |-> (N_Core \in names \/ N_App \in names \/ N_Custom \in names
                           \/ thumbs # {}),
              summary |->
                 (IF N_Core \in names
                  THEN PartLabels(ZipRead(f, N_Core), CoreLabels, "CoreProps") ELSE <<>>)
                 \o (IF N_App \in names
                     THEN PartLabels(ZipRead(f, N_App), AppLabels, "AppProps") ELSE <<>>)
                 \o (IF N_Custom \in names THEN CustomLabels(ZipRead(f, N_Custom)) ELSE <<>>)
                 \o (IF thumbs # {} THEN <<"Thumbnail">> ELSE <<>>)]

\* the filter of _hash_office_content on one entry name
HashedPart(n) ==
    ~StartsWith(n, P_DocProps)
    /\ ~(\/ EndsWith(n, <<46, 114, 101, 108, 115>>)                \* '.rels'
          \/ Contains(n, <<47, 95, 114, 101, 108, 115, 47>>)        \* '/_rels/'
          \/ StartsWith(n, <<95, 114, 101, 108, 115, 47>>))         \* '_rels/'
    /\ n # N_ContentTypes

\* names.sort(): insertion of one name into a sorted list, after its equals
RECURSIVE InsertSorted(_, _)
InsertSorted(n, q) ==
    IF q = <<>> THEN <<n>>
    ELSE IF LexLess(n, q[1]) THEN <<n>> \o q
    ELSE <<q[1]>> \o InsertSorted(n, Tail(q))

RECURSIVE SortNames(_)
SortNames(q) == IF q = <<>> THEN <<>> ELSE InsertSorted(q[Len(q)], SortNames(SubSeq(q, 1, Len(q) - 1)))

\* the bytes fed to the hash: for each kept name in sorted order, the name then
\* the content z.read(name) returns
_hash_office_content(f) ==
    LET names == SortNames(SelectSeq(namelist(f), HashedPart))
    IN  [bytes |-> <<>>,
         parts |-> [i \in 1..Len(names) |-> Part(names[i], ZipRead(f, names[i]))],
         streams |-> {}, rev |-> 0]

-----------------------------------------------------------------------------
(* Legacy Office (OLE structured storage) *)

SummaryInformation == "\\x05SummaryInformation"
DocumentSummaryInformation == "\\x05DocumentSummaryInformation"
PropertySets == <<SummaryInformation, DocumentSummaryInformation>>

\* the 'targets' of _hash_ole_core_streams, as the streams are named on disk
CoreStreams == {"WordDocument", "0Table", "1Table", "Workbook", "Book", "PowerPoint Document"}

\* StgOpenStorage succeeds only on a compound file
_ole_has_props(f, c) ==
    IF ~c.pywin32 \/ f.kind # "ole" THEN <<FALSE, FALSE>>
    ELSE <<SummaryInformation \in f.streams, DocumentSummaryInformation \in f.streams>>

\* a digest that was not computed
NoDigest == [bytes |-> <<>>, parts |-> <<>>, streams |-> {}, rev |-> 0]

\* _hash_ole_core_streams: ok is FALSE for its None (the storage cannot be
\* opened or holds no core stream)
_hash_ole_core_streams(f) ==
    IF f.kind # "ole" \/ f.streams \cap CoreStreams = {}
    THEN [ok |-> FALSE, digest |-> NoDigest]
    ELSE [ok |-> TRUE,
          digest |-> [bytes |-> <<>>, parts |-> <<>>,
                      streams |-> f.streams \cap CoreStreams, rev |-> f.rev]]

\* _hash_ole_content: every stream but the two property sets
_hash_ole_content(f) ==
    IF f.kind # "ole" THEN [ok |-> FALSE, digest |-> NoDigest]
    ELSE [ok |-> TRUE,
          digest |-> [bytes |-> <<>>, parts |-> <<>>,
                      streams |-> f.streams \ {SummaryInformation, DocumentSummaryInformation},
                      rev |-> f.rev]]

-----------------------------------------------------------------------------
(* PDF without the PDF library *)

\* b'/Info'
L_Info     == <<47, 73, 110, 102, 111>>

_detect_pdf_metadata_quick(f) ==
    LET data == Read(f.bytes, 0, 65536)
    IN  \/ Contains(data, <<47, 77, 101, 116, 97, 100, 97, 116, 97>>)   \* b'/Metadata'
        \/ Contains(data, <<120, 112, 97, 99, 107, 101, 116>>)          \* b'xpacket'
        \/ Contains(data, L_Info)

-----------------------------------------------------------------------------
(* Word 2003 XML *)

\* an element below the root of a parsed document: its local name, whether its
\* namespace is urn:schemas-microsoft-com:office:office, and the position of its
\* parent in document order (0: the root)
XNode(tag, o, parent) == [tag |-> tag, o |-> o, parent |-> parent]

\* a document ElementTree parses: the bytes of its head and its elements in
\* document order
WordML(b, nodes) ==
    [kind |-> "wordml", bytes |-> b, parts |-> nodes, streams |-> {}, rev |-> 0]

\* the head a Word 2003 author writes: '<?xml', '<', 'w:wordDocument'
WordMLHead == L_xmldecl \o <<60>> \o L_wordDocument

\* root.find('.//o:<tag>', ns): the position of the first such element, 0 for None
XFind(nodes, tag) ==
    LET idx == {i \in 1..Len(nodes) : nodes[i].o /\ nodes[i].tag = tag}
    IN  IF idx = {} THEN 0 ELSE CHOOSE i \in idx : \A k \in idx : i <= k

\* elem.remove(child) for the element at position i: it goes with its subtree
XRemove(nodes, i) ==
    LET inside == {e \in i..Len(nodes) : \A j \in (i + 1)..e : nodes[j].parent >= i}
        last == CHOOSE e \in inside : \A k \in inside : k <= e
        n == last - i + 1
    IN  [j \in 1..(Len(nodes) - n) |->
           LET x == nodes[IF j < i THEN j ELSE j + n]
           IN  [x EXCEPT !.parent = IF @ > last THEN @ - n ELSE @]]

\* 'if label not in tags: tags.append(label)' over the labels (also the loop of
\* detect_file_metadata appending ExifTool's labels not yet listed)
RECURSIVE AppendNew(_, _)
AppendNew(summary, labels) ==
    IF labels = <<>> THEN summary
    ELSE AppendNew(IF InSeq(labels[1], summary) THEN summary ELSE Append(summary, labels[1]),
                   Tail(labels))

\* _detect_word2003xml_props(path); ET.parse raises on a file that is no XML
_detect_word2003xml_props(f) ==
    IF f.kind # "wordml" THEN <<>>
    ELSE LET dp == XFind(f.parts, "DocumentProperties")
             cdp == XFind(f.parts, "CustomDocumentProperties")
             children == SelectSeq(f.parts, LAMBDA x : x.parent = dp)
             tags == IF dp = 0 THEN <<>>
                     ELSE AppendNew(<<>>, [i \in 1..Len(children) |-> children[i].tag])
         IN  IF cdp = 0 THEN tags ELSE Append(tags, "CustomDocumentProperties")

\* the tree _clean_word2003xml writes and its flag 'changed'; in the head
\* tree.write() produces the prefix w has become ns0 and the namespace
\* 'http://schemas.microsoft.com/office/word/2003/wordml' stays
CleanWord2003Walk(f) ==
    LET EtWordMLHead == L_xmldecl \o <<60>> \o L_msword \o <<47, 50, 48, 48, 51, 47>>
                           \o L_wordml
        dp == XFind(f.parts, "DocumentProperties")
        n1 == IF dp = 0 THEN f.parts ELSE XRemove(f.parts, dp)
        cdp == XFind(n1, "CustomDocumentProperties")
        n2 == IF cdp = 0 THEN n1 ELSE XRemove(n1, cdp)
    IN  [changed |-> dp # 0 \/ cdp # 0, out |-> WordML(EtWordMLHead, n2)]

-----------------------------------------------------------------------------
(* PDF with the PDF library *)

\* _detect_pdf_metadata_pike(path).  A document pikepdf opens is a file of kind
\* "pdf" whose one part holds the keys of pdf.docinfo in order ('/' stripped),
\* whether the catalog has /Metadata, the bytes md.read_bytes() gives, and the
\* content streams of the pages; on any other file pikepdf.open raises
_detect_pdf_metadata_pike(f) ==
    IF f.kind # "pdf"
    THEN [present |-> _detect_pdf_metadata_quick(f), summary |-> <<"Metadata detected">>]
    ELSE LET d == f.parts[1]
             own == {"Title", "Author", "Subject", "Keywords", "Creator", "Producer",
                     "CreationDate", "ModDate"}
             s1 == AppendNew(<<>>, [i \in 1..Len(d.info) |->
                                      IF d.info[i] \in own THEN d.info[i] ELSE "CustomInfo"])
             tags == << [needle |-> <<100, 99, 58, 116, 105, 116, 108, 101>>,
                         label |-> "Title"],                        \* dc:title
                        [needle |-> <<100, 99, 58, 99, 114, 101, 97, 116, 111, 114>>,
                         label |-> "Author"],                       \* dc:creator
                        [needle |-> <<120, 109, 112, 58, 67, 114, 101, 97, 116, 111, 114,
                                      84, 111, 111, 108>>,
                         label |-> "CreatorTool"],                  \* xmp:CreatorTool
                        [needle |-> <<112, 100, 102, 58, 80, 114, 111, 100, 117, 99, 101, 114>>,
                         label |-> "Producer"],                     \* pdf:Producer
                        [needle |-> <<120, 109, 112, 58, 67, 114, 101, 97, 116, 101, 68, 97,
                                      116, 101>>,
                         label |-> "CreateDate"],                   \* xmp:CreateDate
                        [needle |-> <<120, 109, 112, 58, 77, 111, 100, 105, 102, 121, 68, 97,
                                      116, 101>>,
                         label |-> "ModifyDate"],                   \* xmp:ModifyDate
                        [needle |-> <<120, 109, 112, 77, 77, 58, 68, 111, 99, 117, 109, 101,
                                      110, 116, 73, 68>>,
                         label |-> "DocumentID"] >>                 \* xmpMM:DocumentID
             xmp_text == DecodeUtf8Ignore(d.xmp)
             found == SelectSeq(tags, LAMBDA x : Contains(xmp_text, x.needle))
         IN  [present |-> d.info # <<>> \/ d.md,
              summary |-> IF ~d.md THEN s1
                          ELSE IF d.xmp # <<>>
                          THEN AppendNew(s1, [i \in 1..Len(found) |-> found[i].label])
                          ELSE AppendNew(s1, <<"XMP">>)]

\* _hash_pdf_page_contents(path): the digest of the pages' content streams in
\* page order, None (ok = FALSE) when pikepdf.open raises
_hash_pdf_page_contents(f) ==
    IF f.kind # "pdf" THEN [ok |-> FALSE, digest |-> NoDigest]
    ELSE [ok |-> TRUE, digest |-> BytesDigest(Concat(f.parts[1].pages))]

-----------------------------------------------------------------------------
(* One iteration of each parsing loop: the offset the next iteration starts
   at, or -1 when the iteration leaves the loop (break, return or exception).
   w names the walker: "detect", "clean" or "hash" *)

\* the marker loop of _hash_jpeg_scan with f.seek(length - 4, 1) for its seek
JpegLoopStepSeekFour(s, p, w) ==
    LET marker == Read(s, p, 2)
        lb == Read(s, p + 2, 2)
    IN  IF Len(marker) < 2 \/ marker[1] # 255 \/ marker[2] = 218 THEN -1
        ELSE IF marker[2] \in {216, 217} THEN p + 2
        ELSE IF Len(lb) < 2 THEN -1
        ELSE IF w = "hash" THEN p + 4 + (U16(lb) - 4)
        ELSE IF U16(lb) = 0 THEN -1
        ELSE IF U16(lb) = 1 THEN Len(s)
        ELSE Min(p + 2 + U16(lb), Len(s))

\* the marker loops of _detect_jpeg, _clean_jpeg and _hash_jpeg_scan.  The
\* hasher seeks by length - 2 from behind the length field, backwards for a
\* length of 0 or 1; the other two read length - 2 bytes, where read(-2)
\* raises and read(-1) reads up to the end of the file
JpegLoopStep(s, p, w) ==
    LET marker == Read(s, p, 2)
        lb == Read(s, p + 2, 2)
    IN  IF Len(marker) < 2 \/ marker[1] # 255 \/ marker[2] = 218 THEN -1
        ELSE IF marker[2] \in {216, 217} THEN p + 2
        ELSE IF Len(lb) < 2 THEN -1
        ELSE IF w = "hash" THEN p + 4 + (U16(lb) - 2)
        ELSE IF U16(lb) = 0 THEN -1
        ELSE IF U16(lb) = 1 THEN Len(s)
        ELSE Min(p + 2 + U16(lb), Len(s))

\* the chunk loops of _detect_png (seeks over data and CRC), _clean_png (reads
\* them, checks nothing) and _hash_png_idat (reads them, leaves on a short
\* read).  A length of 2^24 or more leads beyond the end of every file here:
\* the offset is then given as one behind the end, from where the loops go
\* on as from every offset behind the end
PngLoopStep(s, p, w) ==
    LET len_bytes == Read(s, p, 4)
        next == IF len_bytes[1] # 0 THEN Len(s) + 1 ELSE p + 12 + U32(len_bytes)
    IN  IF Len(len_bytes) < 4 THEN -1
        ELSE IF w = "detect" THEN (IF Len(Read(s, p + 4, 4)) < 4 THEN -1 ELSE next)
        ELSE IF w = "clean" THEN Min(next, Len(s))
        ELSE IF next > Len(s) THEN -1 ELSE next

\* the loop of _skip_sub_blocks (seeks over the sub-block) and, with copy, of
\* _copy_sub_blocks and of the hasher's sub-block loops (read it)
SubBlockStep(s, p, copy) ==
    LET szb == Read(s, p, 1)
    IN  IF szb = <<>> THEN -1
        ELSE IF szb[1] = 0 THEN -1
        ELSE IF copy THEN p + 1 + Len(Read(s, p + 1, szb[1]))
        ELSE p + 1 + szb[1]

\* the block loops of _detect_gif_comments, _clean_gif and _hash_gif_no_comments
GifLoopStep(s, p, w) ==
    LET introducer == Read(s, p, 1)
        label == Read(s, p + 1, 1)
        desc == Read(s, p + 1, 9)
        packed == Read(s, p + 1 + Len(desc), 1)
        q == p + 1 + Len(desc) + 1
        lct == Read(s, q, ColorTableSize(packed[1]))
        lzw == Read(s, q + Len(lct), 1)
    IN  IF introducer = <<>> THEN -1
        ELSE IF introducer[1] = 44
        THEN IF w = "detect"
             THEN IF Read(s, p + 10, 1) = <<>> THEN -1
                  ELSE _skip_sub_blocks(s, p + 11 + ColorTableSize(s[p + 11]) + 1)
             ELSE IF packed = <<>> THEN -1
             ELSE IF w = "hash" /\ lzw = <<>> THEN -1
             ELSE _copy_sub_blocks(s, q + Len(lct) + Len(lzw), <<>>).p
        ELSE IF introducer[1] = 33
        THEN IF label = <<>> THEN -1
             ELSE IF w = "detect" \/ label[1] = 254 THEN _skip_sub_blocks(s, p + 2)
             ELSE _copy_sub_blocks(s, p + 2, <<>>).p
        ELSE -1

\* the outer loops of _rtf_strip_info (cleaner and hasher) and, for
\* w = "detect", of _rtf_info_blocks
RtfLoopStep(s, i, w) ==
    IF ~(i < Len(s)) THEN -1
    ELSE IF s[i + 1] = 123 /\ StartsWithAt(s, L_info, i + 1) THEN RtfGroupEnd(s, i + 1, 1)
    ELSE IF w # "detect" /\ s[i + 1] = 92 /\ i + 1 < Len(s) THEN i + 2
    ELSE i + 1

\* the inner loop of both at a depth above 0
RtfGroupStep(s, j) ==
    IF ~(j < Len(s)) THEN -1
    ELSE IF s[j + 1] = 92 THEN j + 2
    ELSE j + 1

-----------------------------------------------------------------------------
(* Public operations: detection and content hash *)

\* Path(path).suffix.lower().lstrip('.') for the suffixes of the modelled paths
ExtName(e) ==
    CASE e = ".jpg" -> "jpg" [] e = ".png" -> "png" [] e = ".gif" -> "gif"
      [] e = ".rtf" -> "rtf" [] e = ".pdf" -> "pdf" [] e = ".bin" -> "bin"
      [] e = ".doc" -> "doc" [] e = ".xls" -> "xls" [] e = ".ppt" -> "ppt"
      [] e = ".docx" -> "docx" [] e = ".xlsx" -> "xlsx" [] e = ".pptx" -> "pptx"
      [] e = ".xml" -> "xml" [] e = "" -> ""

Report(t, can_clean, summary, note) ==
    [done |-> TRUE, raised |-> FALSE, type |-> t, can_clean |-> can_clean,
     summary |-> summary, note |-> note]

\* detect_file_metadata(path).  et is what _exiftool_detect_summary answers when
\* the tool is run: [ok |-> FALSE] for its None, else the labels.  PDFs opened
\* with the PDF library are not modelled here.
detect_file_metadata(f, e, c, et) ==
    LET t == _file_type(f, e) IN
    IF t = "word2003xml"
    THEN LET props == _detect_word2003xml_props(f) IN Report(t, props # <<>>, props, "")
    ELSE IF t = "rtf"
    THEN LET tags == _detect_rtf_info(f) IN Report(t, tags # <<>>, tags, "")
    ELSE IF t \in {"doc", "xls", "ppt"}
    THEN LET has == _ole_has_props(f, c)
             s1 == (IF has[1] THEN <<"SummaryInfo">> ELSE <<>>)
                   \o (IF has[2] THEN <<"DocSummaryInfo">> ELSE <<>>)
             s2 == IF c.exiftool /\ et.ok THEN AppendNew(s1, et.labels) ELSE s1
         IN  Report(t, c.pywin32, s2,
                    IF c.pywin32 THEN ""
                    ELSE "Legacy Office cleaning requires Windows pywin32 (bundled in EXE)")
    ELSE IF c.exiftool /\ et.ok
    THEN Report(IF t = "other" /\ ExtName(e) # "" THEN ExtName(e) ELSE t,
                Len(et.labels) > 0, et.labels, "")
    ELSE IF t = "jpeg"
    THEN LET d == _detect_jpeg(f)
             summary == (IF d.exif THEN <<"EXIF">> ELSE <<>>)
                        \o (IF d.xmp THEN <<"XMP">> ELSE <<>>)
                        \o (IF d.iptc THEN <<"IPTC">> ELSE <<>>)
         IN  IF d.raised
             THEN [Report(t, FALSE, <<>>, "") EXCEPT !.raised = TRUE]
             ELSE Report(t, summary # <<>>, summary, "")
    ELSE IF t = "png"
    THEN LET d == _detect_png(f)
         IN  Report(t, d.text > 0 \/ d.time > 0,
                    (IF d.text > 0 THEN <<"Text chunks:" \o ToString(d.text)>> ELSE <<>>)
                    \o (IF d.time > 0 THEN <<"tIME">> ELSE <<>>), "")
    ELSE IF t = "gif"
    THEN LET comments == _detect_gif_comments(f)
         IN  Report(t, comments > 0,
                    IF comments > 0 THEN <<"Comments:" \o ToString(comments)>> ELSE <<>>, "")
    ELSE IF t \in {"docx", "xlsx", "pptx"}
    THEN LET info == _detect_office_props_details(f)
         IN  Report(t, info.present, info.summary, "")
    ELSE IF t = "pdf" /\ c.pikepdf
    THEN LET info == _detect_pdf_metadata_pike(f)
         IN  Report(t, info.present,
                    IF info.summary = <<>> /\ info.present THEN <<"Info/XMP present">>
                    ELSE info.summary, "")
    ELSE IF t = "pdf"
    THEN Report(t, FALSE,
                IF _detect_pdf_metadata_quick(f) THEN <<"Metadata detected">> ELSE <<>>,
                "PDF cleaning requires pikepdf (not bundled)")
    ELSE Report(t, FALSE, <<>>, "Unsupported format")

Hashed(digest, desc) == [done |-> TRUE, ok |-> TRUE, digest |-> digest, desc |-> desc]
HashFailed(reason)   == [done |-> TRUE, ok |-> FALSE, digest |-> NoDigest, desc |-> reason]

\* compute_content_hash(path): (digest, description), or (None, reason) as ok = FALSE
compute_content_hash(f, e, c) ==
    LET ft == _file_type(f, e)
        h_core == _hash_ole_core_streams(f)
        h_all == _hash_ole_content(f)
    IN  IF ft = "jpeg" THEN Hashed(_hash_jpeg_scan(f), "JPEG scan data")
        ELSE IF ft = "png" THEN Hashed(_hash_png_idat(f), "PNG IDAT")
        ELSE IF ft = "gif" THEN Hashed(_hash_gif_no_comments(f), "GIF without comments")
        ELSE IF ft = "rtf" THEN Hashed(_hash_rtf_content(f), "RTF without \\info")
        ELSE IF ft \in {"doc", "xls", "ppt"} /\ c.pywin32 /\ h_core.ok
        THEN Hashed(h_core.digest, "Core OLE streams")
        ELSE IF ft \in {"doc", "xls", "ppt"} /\ c.pywin32 /\ h_all.ok
        THEN Hashed(h_all.digest, "OLE streams (excluding property sets)")
        ELSE IF ft \in {"docx", "xlsx", "pptx"}
        THEN IF f.kind = "zip"
             THEN Hashed(_hash_office_content(f),
                         CASE ft = "docx" -> "DOCX content parts"
                           [] ft = "xlsx" -> "XLSX content parts"
                           [] ft = "pptx" -> "PPTX content parts")
             ELSE HashFailed("Hash error: File is not a zip file")
        ELSE IF ft = "word2003xml" THEN Hashed(_hash_file(f), "XML document")
        ELSE IF ft = "pdf" /\ c.pikepdf
        THEN IF _hash_pdf_page_contents(f).ok
             THEN Hashed(_hash_pdf_page_contents(f).digest, "PDF page contents")
             ELSE HashFailed("PDF content hash unavailable")
        ELSE IF ft = "pdf" THEN HashFailed("PDF hashing requires pikepdf")
        ELSE Hashed(_hash_file(f), "Whole file")

-----------------------------------------------------------------------------
(* The directory of the target file and the calls made on it *)

NoReport == [done |-> FALSE, raised |-> FALSE, type |-> "", can_clean |-> FALSE,
             summary |-> <<>>, note |-> ""]
NoHash   == [done |-> FALSE, ok |-> FALSE, digest |-> NoDigest, desc |-> ""]
NoResult == [done |-> FALSE, raised |-> FALSE, changed |-> FALSE, reason |-> ""]

\* (changed, reason) returned by clean_file_metadata
Returned(changed, reason) ==
    [done |-> TRUE, raised |-> FALSE, changed |-> changed, reason |-> reason]
\* an exception leaving clean_file_metadata
Raised(reason) == [done |-> TRUE, raised |-> TRUE, changed |-> FALSE, reason |-> reason]

\* the backup loop with its counter advanced before the first numbered name
\* is tried: <path>.bak.1 is never chosen
BakIndexSkipsOne(b) ==
    LET used == {x.n : x \in b}
    IN  IF 0 \notin used THEN 0
        ELSE CHOOSE n \in 2..(Cardinality(used) + 2) :
                 n \notin used /\ \A m \in 2..(n - 1) : m \in used

\* the index of the backup name the 'while bak.exists()' loop of _replace_file
\* and _make_backup_copy stops at: 0 is <path>.bak, n >= 1 is <path>.bak.<n>
BakIndex(b) ==
    LET used == {x.n : x \in b}
    IN  IF 0 \notin used THEN 0
        ELSE CHOOSE n \in 1..(Cardinality(used) + 1) :
                 n \notin used /\ \A m \in 1..(n - 1) : m \in used

\* the frame of one clean_file_metadata call
\* (copyfail: shutil.copy2 raised in this call, whoever caught the exception)
Frame(backup, t) ==
    [backup |-> backup, t |-> t, bak |-> -1, changed |-> FALSE, i |-> 1, removed |-> 0,
     copyfail |-> FALSE]

-----------------------------------------------------------------------------
(* Operations *)

\* what _exiftool_detect_summary may answer: None, or a list of labels
ExifAnswers ==
    {[ok |-> FALSE, labels |-> <<>>], [ok |-> TRUE, labels |-> <<>>],
     [ok |-> TRUE, labels |-> <<"Author">>],
     [ok |-> TRUE, labels |-> <<"Author", "Title">>]}

\* a caller runs detect_file_metadata(path)
Detect ==
    /\ pc = "idle" /\ ~det.done
    /\ \E et \in ExifAnswers : det' = detect_file_metadata(file, ext, cap, et)
    /\ UNCHANGED <<cap, ext, file, baks, tmps, pc, ctx, res, pre, hsh, ncalls>>

\* a caller runs compute_content_hash(path)
Hash ==
    /\ pc = "idle" /\ det.done /\ ~hsh.done
    /\ hsh' = compute_content_hash(file, ext, cap)
    /\ UNCHANGED <<cap, ext, file, baks, tmps, pc, ctx, res, pre, det, ncalls>>

\* clean_file_metadata(path, backup): classification and dispatch
clean_file_metadata ==
    /\ pc = "idle" /\ hsh.done /\ ncalls < MaxCalls
    /\ \E backup \in BOOLEAN :
         LET t == _file_type(file, ext)
             go(label) == /\ pc' = label
                          /\ res' = NoResult
             ret(changed, reason) == /\ pc' = "idle"
                                     /\ res' = Returned(changed, reason)
         IN  /\ ctx' = Frame(backup, t)
             /\ IF t = "word2003xml" THEN go("_clean_word2003xml")
                ELSE IF t = "rtf" THEN go("_clean_rtf")
                ELSE IF t \in {"doc", "xls", "ppt"}
                THEN IF ~cap.pywin32
                     THEN ret(FALSE, "Legacy Office cleaning unavailable (missing pywin32)")
                     ELSE go("_clean_ole_props")
                ELSE IF t \in {"docx", "xlsx", "pptx"} THEN go("_clean_office_props")
                ELSE IF cap.exiftool THEN go("_make_backup_copy")
                ELSE IF t = "jpeg" THEN go("_clean_jpeg")
                ELSE IF t = "png" THEN go("_clean_png")
                ELSE IF t = "gif" THEN go("_clean_gif")
                ELSE IF t = "pdf" /\ cap.pikepdf THEN go("_clean_pdf")
                ELSE ret(FALSE, "")
    /\ pre' = [file |-> file, baks |-> baks, tmps |-> tmps, det |-> det, hsh |-> hsh,
               res |-> res, ctx |-> ctx]
    /\ det' = NoReport /\ hsh' = NoHash
    /\ ncalls' = ncalls + 1
    /\ UNCHANGED <<cap, ext, file, baks, tmps>>

\* the common end of the image handlers: w is the walk's outcome
ImageHandlerEnd(w) ==
    IF w.raised
    THEN /\ tmps' = Append(tmps, [isdir |-> FALSE, f |-> RawFile(w.out)])
         /\ pc' = "idle" /\ res' = Raised("ValueError/IndexError")
    ELSE IF w.changed
    THEN /\ tmps' = Append(tmps, [isdir |-> FALSE, f |-> RawFile(w.out)])
         /\ pc' = "_replace_file" /\ res' = res
    ELSE /\ tmps' = tmps
         /\ pc' = "idle" /\ res' = Returned(FALSE, "")

\* _clean_jpeg up to its call of _replace_file
_clean_jpeg ==
    /\ pc = "_clean_jpeg"
    /\ IF Read(file.bytes, 0, 2) # SOI
       THEN tmps' = tmps /\ pc' = "idle" /\ res' = Returned(FALSE, "")
       ELSE ImageHandlerEnd(CleanJpegWalk(file))
    /\ UNCHANGED <<cap, ext, file, baks, ctx, pre, det, hsh, ncalls>>

\* _clean_png up to its call of _replace_file
_clean_png ==
    /\ pc = "_clean_png"
    /\ IF Read(file.bytes, 0, 8) # PngSig
       THEN tmps' = tmps /\ pc' = "idle" /\ res' = Returned(FALSE, "")
       ELSE ImageHandlerEnd(CleanPngWalk(file))
    /\ UNCHANGED <<cap, ext, file, baks, ctx, pre, det, hsh, ncalls>>

\* _clean_gif up to its call of _replace_file
_clean_gif ==
    /\ pc = "_clean_gif"
    /\ LET w == CleanGifWalk(file)
       IN  IF w.early
           THEN tmps' = tmps /\ pc' = "idle" /\ res' = Returned(FALSE, "")
           ELSE ImageHandlerEnd(w)
    /\ UNCHANGED <<cap, ext, file, baks, ctx, pre, det, hsh, ncalls>>

\* _clean_office_props up to its call of _replace_file: the rewritten archive is
\* in a temp directory, which the 'finally' removes on every other way out
_clean_office_props ==
    /\ pc = "_clean_office_props"
    /\ IF file.kind # "zip"
       THEN tmps' = tmps /\ ctx' = ctx /\ pc' = "idle" /\ res' = Raised("BadZipFile")
       ELSE LET w == CleanOfficeWalk(file)
            IN  /\ ctx' = [ctx EXCEPT !.removed = w.removed]
                /\ IF w.removed > 0
                   THEN /\ tmps' = Append(tmps, [isdir |-> TRUE, f |-> w.out])
                        /\ pc' = "_replace_file" /\ res' = res
                   ELSE tmps' = tmps /\ pc' = "idle" /\ res' = Returned(FALSE, "")
    /\ UNCHANGED <<cap, ext, file, baks, pre, det, hsh, ncalls>>

\* _clean_rtf up to its call of _replace_file
_clean_rtf ==
    /\ pc = "_clean_rtf"
    /\ LET w == CleanRtfWalk(file)
       IN  IF ~w.changed
           THEN tmps' = tmps /\ pc' = "idle" /\ res' = Returned(FALSE, "")
           ELSE /\ tmps' = Append(tmps, [isdir |-> FALSE, f |-> RawFile(w.out)])
                /\ pc' = "_replace_file" /\ res' = res
    /\ UNCHANGED <<cap, ext, file, baks, ctx, pre, det, hsh, ncalls>>

\* _clean_pdf up to its call of _replace_file: the temp file is made first and
\* removed again when nothing changed and when pikepdf.open raises, which
\* _clean_pdf raises on
_clean_pdf ==
    /\ pc = "_clean_pdf"
    /\ IF file.kind # "pdf"
       THEN tmps' = tmps /\ pc' = "idle" /\ res' = Raised("PdfError")
       ELSE IF file.parts[1].info = <<>> /\ ~file.parts[1].md
       THEN tmps' = tmps /\ pc' = "idle" /\ res' = Returned(FALSE, "")
       ELSE /\ tmps' = Append(tmps, [isdir |-> FALSE,
                                     f |-> [file EXCEPT !.bytes = PdfMagic \o <<49>>,
                                                        !.parts = <<[info |-> <<>>,
                                                                     md |-> FALSE,
                                                                     xmp |-> <<>>,
                                                                     pages |-> @[1].pages]>>]])
            /\ pc' = "_replace_file" /\ res' = res
    /\ UNCHANGED <<cap, ext, file, baks, ctx, pre, det, hsh, ncalls>>

\* _clean_word2003xml up to its call of _replace_file; every exception (a file
\* ET.parse rejects) is swallowed and False returned
_clean_word2003xml ==
    /\ pc = "_clean_word2003xml"
    /\ LET w == CleanWord2003Walk(file)
       IN  IF file.kind # "wordml" \/ ~w.changed
           THEN tmps' = tmps /\ pc' = "idle" /\ res' = Returned(FALSE, "")
           ELSE /\ tmps' = Append(tmps, [isdir |-> FALSE, f |-> w.out])
                /\ pc' = "_replace_file" /\ res' = res
    /\ UNCHANGED <<cap, ext, file, baks, ctx, pre, det, hsh, ncalls>>

\* _replace_file, first half: the backup copy.  shutil.copy2 may fail (I/O
\* error); the failure is swallowed and no backup is left
_replace_file ==
    /\ pc = "_replace_file"
    /\ \E copied \in BOOLEAN :
         /\ baks' = IF ctx.backup /\ copied
                    THEN baks \cup {[n |-> BakIndex(baks), f |-> file]}
                    ELSE baks
         /\ ctx' = [ctx EXCEPT !.copyfail = ctx.backup /\ ~copied]
    /\ pc' = "os_replace"
    /\ UNCHANGED <<cap, ext, file, tmps, res, pre, det, hsh, ncalls>>

\* the reason clean_file_metadata returns with changed = True
RemovedReason(c) ==
    CASE c.t = "word2003xml" -> "Removed Office 2003 XML properties"
      [] c.t = "rtf" -> "Removed RTF \\info"
      [] c.t = "jpeg" -> "Removed EXIF/XMP/IPTC"
      [] c.t = "png" -> "Removed text/time chunks"
      [] c.t = "gif" -> "Removed comments"
      [] c.t = "pdf" -> "Removed Info/XMP"
      [] OTHER -> "Removed docProps (" \o ToString(c.removed) \o ")"

\* _replace_file, second half: os.replace(new_tmp, orig), then the handler's
\* return (for OOXML through the 'finally' that removes the temp directory)
os_replace ==
    /\ pc = "os_replace"
    /\ file' = tmps[Len(tmps)].f
    /\ tmps' = SubSeq(tmps, 1, Len(tmps) - 1)
    /\ pc' = "idle"
    /\ res' = Returned(TRUE, RemovedReason(ctx))
    /\ UNCHANGED <<cap, ext, baks, ctx, pre, det, hsh, ncalls>>

\* _clean_ole_props up to the loop: the backup is made first (a failed copy is
\* swallowed), then StgOpenStorage, which fails on a file that is no compound file
_clean_ole_props ==
    /\ pc = "_clean_ole_props"
    /\ \E copied \in BOOLEAN :
         /\ baks' = IF ctx.backup /\ copied
                    THEN baks \cup {[n |-> BakIndex(baks), f |-> file]}
                    ELSE baks
         /\ ctx' = [ctx EXCEPT !.copyfail = ctx.backup /\ ~copied]
    /\ IF file.kind # "ole"
       THEN pc' = "idle" /\ res' = Returned(FALSE, "OLE clean error")
       ELSE pc' = "DestroyElement" /\ res' = res
    /\ UNCHANGED <<cap, ext, file, tmps, pre, det, hsh, ncalls>>

\* one iteration of the loop of _clean_ole_props: stg.DestroyElement(name) on
\* the open storage, which raises (swallowed) when the stream is absent; after
\* the second name, Commit and return
DestroyElement ==
    /\ pc = "DestroyElement"
    /\ LET name == PropertySets[ctx.i]
           destroyed == name \in file.streams
           changed == ctx.changed \/ destroyed
       IN  /\ file' = IF destroyed THEN [file EXCEPT !.streams = @ \ {name}] ELSE file
           /\ IF ctx.i < Len(PropertySets)
              THEN /\ ctx' = [ctx EXCEPT !.i = @ + 1, !.changed = changed]
                   /\ pc' = "DestroyElement" /\ res' = res
              ELSE /\ ctx' = [ctx EXCEPT !.changed = changed]
                   /\ pc' = "idle"
                   /\ res' = IF changed THEN Returned(TRUE, "Removed OLE property sets")
                             ELSE Returned(FALSE, "No OLE property sets present")
    /\ UNCHANGED <<cap, ext, baks, tmps, pre, det, hsh, ncalls>>

\* the external-tool branch of clean_file_metadata, first half: bak_path is the
\* backup made by _make_backup_copy, or None (-1) without backup or when the
\* copy fails
_make_backup_copy ==
    /\ pc = "_make_backup_copy"
    /\ \E copied \in BOOLEAN :
         IF ctx.backup /\ copied
         THEN /\ baks' = baks \cup {[n |-> BakIndex(baks), f |-> file]}
              /\ ctx' = [ctx EXCEPT !.bak = BakIndex(baks)]
         ELSE baks' = baks /\ ctx' = [ctx EXCEPT !.copyfail = ctx.backup]
    /\ pc' = "_exiftool_clean"
    /\ UNCHANGED <<cap, ext, file, tmps, res, pre, det, hsh, ncalls>>

\* what the run of ExifTool reports
ExifOutcomes == {"updated", "unchanged", "error"}

\* the external-tool branch, second half: _exiftool_clean rewrites the file
\* itself (-overwrite_original) when it reports an update; otherwise the backup
\* made by this call is removed
_exiftool_clean ==
    /\ pc = "_exiftool_clean"
    /\ \E outcome \in ExifOutcomes :
         IF outcome = "updated"
         THEN /\ file' = [file EXCEPT !.rev = @ + 1]
              /\ baks' = baks
              /\ res' = Returned(TRUE, "ExifTool: removed metadata")
         ELSE /\ file' = file
              /\ baks' = {x \in baks : x.n # ctx.bak}
              /\ res' = Returned(FALSE, IF outcome = "unchanged"
                                        THEN "No writable metadata for this file type"
                                        ELSE "ExifTool error")
    /\ pc' = "idle"
    /\ UNCHANGED <<cap, ext, tmps, ctx, pre, det, hsh, ncalls>>

-----------------------------------------------------------------------------
(* The files the calls are made on *)

\* all sequences of at most n elements of U
SeqsUpTo(U, n) == UNION {[1..k -> U] : k \in 0..n}

\* JPEG: marker segments and malformed pieces that may follow the SOI
JpegUnits ==
    { <<255, 224, 0, 4, 74, 70>>,                \* APP0, two data bytes
      <<255, 225, 0, 8>> \o ExifId,              \* APP1 Exif
      <<255, 225, 0, 30>> \o XmpNs,              \* APP1 XMP
      <<255, 225, 0, 4, 1, 2>>,                  \* APP1, neither Exif nor XMP
      <<255, 237, 0, 15>> \o PsId,               \* APP13 Photoshop 3.0
      <<255, 218, 1, 2, 255, 217>>,              \* SOS, scan data, EOI
      <<255, 217>>,                              \* EOI without length
      <<0, 17>>,                                 \* no marker where one is expected
      <<255, 224, 0, 0>>,                        \* length field 0
      <<255, 224, 0, 1>>,                        \* length field 1
      <<255, 225, 0, 8, 69>> }                   \* segment cut short
JpegFiles == {RawFile(SOI \o Concat(us)) : us \in SeqsUpTo(JpegUnits, MaxJpegUnits)}

\* PNG: chunks (length, type, data, CRC) and malformed pieces after the signature
PngUnits ==
    { <<0, 0, 0, 1>> \o <<73, 72, 68, 82>> \o <<7>> \o <<1, 1, 1, 1>>,   \* IHDR
      <<0, 0, 0, 2>> \o T_tEXt \o <<97, 0>> \o <<2, 2, 2, 2>>,
      <<0, 0, 0, 1>> \o T_iTXt \o <<98>> \o <<3, 3, 3, 3>>,
      <<0, 0, 0, 1>> \o T_zTXt \o <<99>> \o <<9, 9, 9, 9>>,
      <<0, 0, 0, 1>> \o T_tIME \o <<5>> \o <<4, 4, 4, 4>>,
      <<0, 0, 0, 2>> \o T_IDAT \o <<8, 9>> \o <<5, 5, 5, 5>>,
      <<0, 0, 0, 0>> \o <<73, 69, 78, 68>> \o <<6, 6, 6, 6>>,          \* IEND
      <<0, 0, 0, 5>> \o T_tEXt \o <<1>>,         \* chunk cut short
      <<0, 0>> }                                 \* length cut short
PngFiles == {RawFile(PngSig \o Concat(us)) : us \in SeqsUpTo(PngUnits, MaxPngUnits)}

\* GIF: header and logical screen descriptor, without and with a global colour
\* table of two entries, and cut short
GifHeads ==
    { Gif89a \o <<1, 0, 1, 0, 0, 0, 0>>,
      Gif87a \o <<1, 0, 1, 0, 128, 0, 0>> \o <<0, 0, 0, 255, 255, 255>>,
      Gif89a \o <<1, 0, 1>> }
\* GIF: blocks and malformed pieces after the head
GifUnits ==
    { <<33, 254, 2, 104, 105, 0>>,               \* comment extension "hi"
      <<33, 249, 1, 7, 0>>,                      \* another extension
      \* image: introducer, descriptor, LZW code size, data sub-blocks
      <<44, 0, 0, 0, 0, 1, 0, 1, 0, 0>> \o <<2>> \o <<2, 76, 1, 0>>,
      \* the same with the ten bytes the cleaner reads as the descriptor
      <<44, 0, 0, 0, 0, 1, 0, 1, 0, 0, 0>> \o <<2>> \o <<1, 76, 0>>,
      <<59>>,                                    \* trailer
      <<153>>,                                   \* unknown block introducer
      <<44, 0, 0>>,                              \* cut short in the image descriptor
      <<33>> }                                   \* cut short in an extension
\* every head followed by up to MaxGifUnits pieces, and the complete files of
\* two blocks and the trailer
GifFiles ==
    {RawFile(h \o Concat(us)) : h \in GifHeads, us \in SeqsUpTo(GifUnits, MaxGifUnits)}
    \cup {RawFile(h \o b1 \o b2 \o <<59>>) :
             h \in {g \in GifHeads : Len(g) >= 13},
             b1, b2 \in {u \in GifUnits : Len(u) >= 5}}

\* RTF: fragments of text after the '{\rtf1' header
RtfFrags ==
    { <<123>> \o L_info,                         \* '{\info'
      <<123>>,                                   \* '{'
      <<125>>,                                   \* '}'
      L_info,                                    \* '\info'
      <<92, 97, 117, 116, 104, 111, 114, 32, 65>>, \* '\author A'
      <<92>> }                                   \* '\'
\* every header followed by up to MaxRtfFrags fragments, and the documents with
\* line endings (CRLF, bare LF, bare CR) and a high-bit byte before and behind
\* an info group and inside one
RtfFiles ==
    LET head == RtfMagic \o <<49>>
        info == <<123>> \o L_info \o <<125>>
        ends == {<<13, 10>>, <<10>>, <<13>>, <<233>>}
    IN  {RawFile(head \o Concat(fs)) : fs \in SeqsUpTo(RtfFrags, MaxRtfFrags)}
        \cup {RawFile(head \o e1 \o info \o e2 \o <<125>>) :
                 e1, e2 \in ends \cup {<<>>}}
        \cup {RawFile(head \o <<123>> \o L_info \o e \o <<125, 125>>) : e \in ends}

\* OOXML: the entries an archive is made of; the PartName attributes are
\* '/docProps/core.xml' and '/word/document.xml', the Target attributes the
\* same without the leading '/'
ZipParts ==
    { Part(N_ContentTypes, Xml(<<<<47>> \o N_Core, <<47>> \o N_WordDoc>>, "orig")),
      Part(N_ContentTypes, Opaque(<<60>>)),
      Part(N_RootRels, Xml(<<N_Core, N_WordDoc>>, "orig")),
      Part(N_Core, Props({"Author", "Title"})),
      Part(N_App, Props({"Company"})),
      Part(N_Custom, Props({"p1", "p2"})),
      Part(N_Thumb, Opaque(<<1>>)),
      Part(N_WordDoc, Opaque(<<2>>)),
      Part(N_WordDoc, Opaque(<<3>>)),
      Part(N_XlWorkbook, Opaque(<<4>>)),
      Part(N_WordRels, Opaque(<<5>>)) }
\* every archive of up to MaxZipParts entries, and the archives of two body
\* entries (possibly of the same name) followed by docProps/core.xml
ZipFiles ==
    {ZipArchive(ps) : ps \in SeqsUpTo(ZipParts, MaxZipParts)}
    \cup {ZipArchive(<<b1, b2, Part(N_Core, Props({"Author"}))>>) :
             b1, b2 \in {b \in ZipParts :
                             b.name \in {N_ContentTypes, N_RootRels, N_WordDoc} /\ 
                             (b.data.xml \/ b.name = N_WordDoc)}}

\* files longer than 8 KiB: text that looks like XML with and without the
\* WordML marker behind the first 8192 bytes, and archives whose first entry
\* alone fills the first 8192 bytes, with and without word/document.xml behind it
LongFiles ==
    LET spaces == [i \in 1..8191 |-> 32]
    IN  { RawFile(<<60>> \o spaces), RawFile(<<60>> \o spaces \o L_wordDocument),
          ZipArchive(<<Part(N_WordRels, Opaque(spaces))>>),
          ZipArchive(<<Part(N_WordRels, Opaque(spaces)), Part(N_WordDoc, Opaque(<<2>>))>>),
          ZipArchive(<<Part(N_WordRels, Opaque(spaces)), Part(N_WordDoc, Opaque(<<3>>))>>),
          ZipArchive(<<Part(N_WordRels, Opaque(spaces)), Part(N_Core, Props({"Author"}))>>) }

\* legacy Office: the root streams of a compound file
OleFiles ==
    {OleFile(ss) : ss \in SUBSET {SummaryInformation, DocumentSummaryInformation,
                                  "WordDocument", "1Table"}}

\* Word 2003 XML: every tree of at most MaxXmlNodes elements below the root:
\* elements in document order, each below the root or below the element
\* before it or that one's ancestors
WordMLFiles ==
    LET XmlTags == { [tag |-> "DocumentProperties", o |-> TRUE],
                     [tag |-> "CustomDocumentProperties", o |-> TRUE],
                     [tag |-> "CustomDocumentProperties", o |-> FALSE],
                     [tag |-> "Author", o |-> TRUE] }
    IN
    {WordML(WordMLHead, ns) :
        ns \in {q \in UNION {[1..k -> {XNode(x.tag, x.o, p) : x \in XmlTags,
                                                           p \in 0..(MaxXmlNodes - 1)}] :
                              k \in 0..MaxXmlNodes} :
                   \A i \in 1..Len(q) :
                      /\ q[i].parent < i
                      /\ \A j \in (q[i].parent + 1)..(i - 1) : q[j].parent >= q[i].parent}}

\* PDFs without and with '/Info', files of no known type, and text that looks
\* like Word 2003 XML and is no XML
OtherFiles ==
    {RawFile(PdfMagic \o <<49>>), RawFile(PdfMagic \o L_Info), RawFile(<<>>),
     RawFile(<<1, 2, 3>>), RawFile(<<32, 60>> \o L_wordDocument)}

\* PDF documents as the PDF library sees them: the keys of /Info, /Metadata
\* on the catalog without and with bytes (with and without a recognised XMP
\* predicate), and the content streams of the pages; the bytes on disk begin
\* with '%PDF-' and hold '/Info' when there is one
PdfFiles ==
    { [kind |-> "pdf",
       bytes |-> PdfMagic \o <<49>> \o (IF info # <<>> THEN L_Info ELSE <<>>),
       parts |-> <<[info |-> info, md |-> m.md, xmp |-> m.xmp, pages |-> pages]>>,
       streams |-> {}, rev |-> 0] :
        info \in {<<>>, <<"Author", "Title">>, <<"Trapped">>, <<"Producer", "Trapped", "Foo">>},
        m \in {[md |-> FALSE, xmp |-> <<>>], [md |-> TRUE, xmp |-> <<>>],
               [md |-> TRUE, xmp |-> <<60, 120, 62>>],
               [md |-> TRUE, xmp |-> <<100, 99, 58, 116, 105, 116, 108, 101>>],
               [md |-> TRUE, xmp |-> <<112, 100, 102, 58, 80, 114, 111, 100, 117, 99, 101, 114>>]},
        pages \in {<<>>, <<<<1>>, <<2, 3>>>>} }

\* target files with the suffix of their path
Inputs ==
    ({".jpg", ".docx"} \X JpegFiles)
    \cup ({".png"} \X PngFiles)
    \cup ({".gif"} \X GifFiles)
    \cup ({".rtf"} \X RtfFiles)
    \cup ({".docx", ".doc"} \X ZipFiles)
    \cup ({".doc", ".xls", ".ppt"} \X OleFiles)
    \cup ({".xml", ".doc"} \X WordMLFiles)
    \cup ({".xml", ".doc"} \X LongFiles)
    \cup ({".pdf", ".bin", ".doc", ".docx", ""} \X OtherFiles)

\* a small choice of inputs of every kind, for the runs with the external tool
\* or the OLE runtime present
FewInputs ==
    { <<".jpg", RawFile(SOI \o <<255, 225, 0, 8>> \o ExifId \o <<255, 218, 1, 2, 255, 217>>)>>,
      <<".png", RawFile(PngSig \o <<0, 0, 0, 1>> \o T_tIME \o <<5>> \o <<4, 4, 4, 4>>)>>,
      <<".gif", RawFile(Gif89a \o <<1, 0, 1, 0, 0, 0, 0>> \o <<33, 254, 2, 104, 105, 0, 59>>)>>,
      <<".rtf", RawFile(RtfMagic \o <<49, 123>> \o L_info \o <<125, 125>>)>>,
      <<".docx", ZipArchive(<<Part(N_Core, Props({"Author"})), Part(N_WordDoc, Opaque(<<2>>))>>)>>,
      <<".doc", ZipArchive(<<Part(N_Core, Props({"Author"})), Part(N_WordDoc, Opaque(<<2>>))>>)>>,
      <<".bin", RawFile(<<1, 2, 3>>)>>, <<".doc", RawFile(<<1, 2, 3>>)>>,
      <<".pdf", RawFile(PdfMagic \o L_Info)>>,
      <<".xml", WordML(WordMLHead, <<XNode("DocumentProperties", TRUE, 0),
                                     XNode("Author", TRUE, 1)>>)>> }
    \cup ({".doc", ".xls", ".ppt"} \X OleFiles)

Init ==
    /\ \E c \in [exiftool : BOOLEAN, pywin32 : BOOLEAN, pikepdf : BOOLEAN] :
       \E inp \in (IF c.pikepdf /\ c.exiftool
                   THEN {".pdf"} \X {f \in PdfFiles : f.parts[1].info = <<"Trapped">>
                                                        /\ f.parts[1].pages = <<>>}
                   ELSE IF c.pikepdf THEN {".pdf"} \X (PdfFiles \cup OtherFiles)
                   ELSE IF c.exiftool \/ c.pywin32 THEN FewInputs ELSE Inputs) :
          cap = c /\ ext = inp[1] /\ file = inp[2]
    \* the backups already next to the target
    /\ baks \in { {}, {[n |-> 0, f |-> RawFile(<<0>>)]},
                  {[n |-> 0, f |-> RawFile(<<0>>)], [n |-> 2, f |-> RawFile(<<0>>)]} }
    /\ tmps = <<>>
    /\ pc = "idle"
    /\ ctx = Frame(FALSE, "")
    /\ res = NoResult
    /\ pre = [file |-> file, baks |-> baks, tmps |-> tmps, det |-> NoReport,
              hsh |-> NoHash, res |-> NoResult, ctx |-> Frame(FALSE, "")]
    /\ det = NoReport /\ hsh = NoHash
    /\ ncalls = 0

Next ==
    \/ Detect
    \/ Hash
    \/ clean_file_metadata
    \/ _clean_jpeg
    \/ _clean_png
    \/ _clean_gif
    \/ _clean_office_props
    \/ _clean_rtf
    \/ _clean_word2003xml
    \/ _clean_pdf
    \/ _replace_file
    \/ os_replace
    \/ _clean_ole_props
    \/ DestroyElement
    \/ _make_backup_copy
    \/ _exiftool_clean

Spec == Init /\ [][Next]_vars

-----------------------------------------------------------------------------
(* Properties *)

\* a clean_file_metadata call has ended (returned or raised) and nothing ran since
\* but detect_file_metadata and compute_content_hash
CallEnded == pc = "idle" /\ res.done
CallReturned == CallEnded /\ ~res.raised

\* the frame c is of a call served by a native image handler or the OOXML handler
NativeImageCall(c) == c.t \in {"jpeg", "png", "gif"} /\ ~cap.exiftool
NativeCall(c) == NativeImageCall(c) \/ c.t \in {"docx", "xlsx", "pptx"}

\* C1: for every JPEG, PNG, GIF or OOXML file on which clean_file_metadata
\* (native handler) returns changed=true, compute_content_hash of the file after
\* the clean returns the same digest as compute_content_hash before the clean.
C1_HashPreserved ==
    (CallReturned /\ res.changed /\ NativeCall(ctx) /\ pre.hsh.done /\ hsh.done)
        => (hsh.ok = pre.hsh.ok /\ hsh.digest = pre.hsh.digest)

\* C2: for every JPEG, PNG, GIF or OOXML file, cleaning the already-cleaned file
\* is a no-op: the second clean_file_metadata call returns changed=false and the
\* bytes after the second call equal the bytes after the first call.
C2_SecondCleanNoOp ==
    (CallEnded /\ pre.res.done /\ ~pre.res.raised /\ NativeCall(pre.ctx))
        => (~res.raised /\ ~res.changed /\ file = pre.file)

\* C3: under one capability configuration, if detect_file_metadata reports
\* can_clean=false then clean_file_metadata returns changed=false and leaves the
\* bytes of the file unchanged.
C3_NoOpFidelity ==
    (CallEnded /\ pre.det.done /\ ~pre.det.raised /\ ~pre.det.can_clean)
        => (~res.raised /\ ~res.changed /\ file = pre.file)

\* C4: on every clean path the target is never written in place: its content
\* changes only by the rename of a completely written temp file onto it, which
\* ends the call (the external tool, run with -overwrite_original, does its own
\* rename), so while a call is under way the target holds the original bytes.
C4_NeverWrittenInPlace ==
    [][ /\ file' # file =>
             /\ pc' = "idle"
             /\ \/ pc = "os_replace" /\ file' = tmps[Len(tmps)].f
                \/ pc = "_exiftool_clean"
        /\ pc' # "idle" => file' = pre'.file ]_vars

\* C5: every clean_file_metadata(path, backup=true) call that returned
\* changed=true has left a new backup whose bytes equal the file's bytes
\* immediately before the call, and no backup made earlier or present
\* beforehand has been overwritten or removed.
C5_BackupOfEveryChange ==
    (CallReturned /\ ctx.backup)
        => /\ pre.baks \subseteq baks
           /\ res.changed =>
                \E b \in baks : /\ b.n \notin {x.n : x \in pre.baks}
                                /\ b.f = pre.file

\* C6: whenever clean_file_metadata(path, backup=true) returns changed=false, on
\* any path (external tool and OLE paths included), the set of backup files is
\* the same as before the call.
C6_NoBackupWithoutChange ==
    (CallReturned /\ ctx.backup /\ ~res.changed) => baks = pre.baks

\* C7: for every RTF file on which clean_file_metadata returns changed=true, the
\* RTF content hash of the cleaned file equals that of the file before cleaning.
C7_RtfHashPreserved ==
    (CallReturned /\ res.changed /\ ctx.t = "rtf")
        => _hash_rtf_content(file) = _hash_rtf_content(pre.file)

\* C8: RTF cleaning is idempotent: stripping the info groups from the text of a
\* cleaned file removes nothing, and a second clean_file_metadata call on a
\* cleaned RTF file returns changed=false and leaves it byte-identical.
C8_RtfIdempotent ==
    (CallReturned /\ ctx.t = "rtf")
        => /\ ~_rtf_strip_info(_read_text_latin1(file.bytes)).changed
           /\ (pre.res.done /\ pre.ctx.t = "rtf") => (~res.changed /\ file = pre.file)

\* the GIF cleaner reads an unknown block introducer, or the JPEG cleaner a
\* byte other than 0xFF where a marker is expected, in file f of type t
MalformedFraming(f, t) ==
    \/ t = "jpeg" /\ Read(f.bytes, 0, 2) = SOI /\ CleanJpegWalk(f).bad
    \/ t = "gif" /\ CleanGifWalk(f).bad

\* C9: if a native cleaner meets malformed framing mid-stream (unknown GIF block
\* introducer, non-0xFF byte where a JPEG marker is expected) then, even after
\* it dropped a metadata unit, clean_file_metadata returns changed=false and
\* the file's bytes are unchanged.
C9_MalformedAborts ==
    (CallEnded /\ NativeImageCall(ctx) /\ MalformedFraming(pre.file, ctx.t))
        => (~res.raised /\ ~res.changed /\ file = pre.file)

\* C10: on every exit path of clean_file_metadata (return or exception) no temp
\* file or temp directory created by the call remains in the target's directory.
C10_NoTempRemains == CallEnded => tmps = pre.tmps

\* C11: if, during a clean with backup requested, copying the original to the
\* backup path fails, the original is left untouched and the failure is
\* propagated to the caller: the clean never replaces the original after a
\* failed backup copy.
C11_BackupFailurePropagates ==
    (CallEnded /\ ctx.copyfail) => (res.raised /\ file = pre.file)

\* the native JPEG or GIF detector meets malformed framing in file f of type t
DetectorMalformed(f, t) ==
    \/ t = "jpeg" /\ _detect_jpeg(f).bad
    \/ t = "gif" /\ DetectGifWalk(f).bad

\* C12: when a native detector meets malformed framing (JPEG length field below
\* 2, a non-0xFF byte where a JPEG marker is expected, an unknown GIF block
\* introducer), detect_file_metadata returns normally with an empty summary
\* and a note: it never raises and never reports labels collected before the
\* malformed point.
C12_DetectMalformed ==
    (pc = "idle" /\ det.done /\ ~cap.exiftool
       /\ DetectorMalformed(file, _file_type(file, ext)))
        => (~det.raised /\ det.summary = <<>> /\ det.note # "")

\* C13: for a file classified docx, xlsx or pptx neither detect_file_metadata
\* nor clean_file_metadata ever invokes the external metadata tool, whether or
\* not it is available: the report is the native OOXML handler's, and a clean
\* never reaches the external tool's steps.
C13_OoxmlNeverDelegated ==
    /\ (pc = "idle" /\ det.done /\ ncalls = 0
          /\ _file_type(file, ext) \in {"docx", "xlsx", "pptx"})
        => LET info == _detect_office_props_details(file)
           IN  det = Report(_file_type(file, ext), info.present, info.summary, "")
    /\ (pc \in {"_make_backup_copy", "_exiftool_clean"})
        => ctx.t \notin {"docx", "xlsx", "pptx"}

\* C19: for a docx, xlsx or pptx file detect_file_metadata reports
\* can_clean = true iff the archive holds at least one docProps metadata part
\* (core.xml, app.xml, custom.xml or a thumbnail), whether or not the external
\* tool is available and whatever labels it reports.
C19_CanCleanIffDocProps ==
    (pc = "idle" /\ det.done /\ ncalls = 0
       /\ _file_type(file, ext) \in {"docx", "xlsx", "pptx"})
        => (det.can_clean
              <=> \E i \in 1..Len(file.parts) :
                     \/ file.parts[i].name \in {N_Core, N_App, N_Custom}
                     \/ StartsWith(file.parts[i].name, P_Thumb))

\* C17: the backup path chosen for a clean is <path>.bak when that name is
\* free, and otherwise <path>.bak.<n> for the smallest n >= 1 such that
\* <path>.bak.<n> does not exist; the backup is a copy of the original, made
\* before the temp file is renamed onto the original.
C17_BackupNaming ==
    [][ /\ \A x \in baks' \ baks :
              LET used == {y.n : y \in baks}
              IN  /\ x.f = file
                  /\ 0 \notin used => x.n = 0
                  /\ 0 \in used => /\ x.n >= 1
                                   /\ x.n \notin used
                                   /\ \A m \in 1..(x.n - 1) : m \in used
        /\ (pc = "os_replace" /\ ctx.backup /\ ~ctx.copyfail)
              => /\ file = pre.file
                 /\ \E x \in baks \ pre.baks : x.f = file
      ]_vars

\* a clean replaced the original after backing it up as <path>.bak.1, the names
\* <path>.bak and <path>.bak.2 being taken
C17_Witness ==
    /\ CallReturned /\ res.changed /\ ctx.t \in {"jpeg", "png", "gif", "rtf", "docx"}
    /\ {x.n : x \in pre.baks} = {0, 2}
    /\ \E x \in baks \ pre.baks : x.n = 1 /\ x.f = pre.file /\ file # pre.file

\* C15: after cleaning an OOXML archive the sequence of entry names is the
\* input's minus exactly docProps/core.xml, docProps/app.xml,
\* docProps/custom.xml and every docProps/thumbnail.* entry, and every
\* surviving part other than [Content_Types].xml and _rels/.rels has the
\* content bytes it had in the input.
C15_OoxmlFrame ==
    (CallReturned /\ ctx.t \in {"docx", "xlsx", "pptx"})
        => LET keep == SelectSeq(pre.file.parts,
                           LAMBDA q : ~(\/ q.name \in {N_Core, N_App, N_Custom}
                                        \/ StartsWith(q.name, P_Thumb)))
           IN  /\ Len(file.parts) = Len(keep)
               /\ \A i \in 1..Len(keep) :
                     /\ file.parts[i].name = keep[i].name
                     /\ keep[i].name \notin {N_ContentTypes, N_RootRels}
                           => file.parts[i].data = keep[i].data

IsMetadataUnit(t, u) ==
    CASE t = "jpeg" ->
            \/ /\ SubSeq(u, 1, 2) = <<255, 225>>
               /\ \/ StartsWith(SubSeq(u, 5, Len(u)), ExifId)
                  \/ Contains(SubSeq(u, 5, Len(u)), XmpNs)
            \/ /\ SubSeq(u, 1, 2) = <<255, 237>>
               /\ StartsWith(SubSeq(u, 5, Len(u)), PsId)
      [] t = "png" -> SubSeq(u, 5, 8) \in {T_tEXt, T_iTXt, T_zTXt, T_tIME}
      [] OTHER -> SubSeq(u, 1, 2) = <<33, 254>>

\* well-formed images as head, units and tail: JPEG marker segments up to the
\* SOS, complete PNG chunks, GIF blocks (comment and graphic control
\* extensions, an image with its 9-byte descriptor) up to the trailer
WellFormedImages ==
    [t : {"jpeg"}, head : {SOI},
     units : SeqsUpTo({u \in JpegUnits : Len(u) >= 6 /\ u[2] \in {224, 225, 237}},
                      MaxJpegUnits),
     tail : {<<255, 218, 1, 2, 255, 217>>}]
    \cup [t : {"png"}, head : {PngSig},
          units : SeqsUpTo({u \in PngUnits : Len(u) >= 12 /\ Len(u) = 12 + U32(u)},
                           MaxPngUnits),
          tail : {<<>>}]
    \cup [t : {"gif"}, head : {g \in GifHeads : Len(g) >= 13},
          units : SeqsUpTo({<<33, 254, 2, 104, 105, 0>>, <<33, 249, 1, 7, 0>>,
                            <<44, 0, 0, 0, 0, 1, 0, 1, 0, 0>> \o <<2>> \o <<2, 76, 1, 0>>},
                           MaxGifUnits),
          tail : {<<59>>}]

\* C14: for well-formed JPEG, PNG and GIF inputs the cleaned file is the input's
\* unit sequence with exactly the metadata units removed, every surviving unit
\* byte-identical and in its original order, and changed is true iff at least
\* one unit was removed.
C14_IdentityExceptDrop ==
    \A w \in WellFormedImages :
       (CallEnded /\ NativeImageCall(ctx) /\ ctx.t = w.t
          /\ pre.file = RawFile(w.head \o Concat(w.units) \o w.tail))
        => LET kept == SelectSeq(w.units, LAMBDA u : ~IsMetadataUnit(w.t, u))
           IN  /\ ~res.raised
               /\ file = RawFile(w.head \o Concat(kept) \o w.tail)
               /\ res.changed <=> Len(kept) < Len(w.units)

\* C20: for every file and every capability configuration the summary returned
\* by detect_file_metadata contains no label twice, Word 2003 XML documents
\* whose o:DocumentProperties has a child named CustomDocumentProperties
\* included.
C20_SummaryNoDuplicates ==
    det.done => \A i, j \in 1..Len(det.summary) :
                   i # j => det.summary[i] # det.summary[j]

\* the bytes of a file on disk, for the files whose bytes the model holds in
\* full: an archive is its entries, each with its name and content, followed
\* by the directory that lists the names
FileImage(f) ==
    IF f.kind # "zip" THEN f.bytes
    ELSE Concat([i \in 1..Len(f.parts) |->
                    PK \o <<3, 4>> \o f.parts[i].name \o f.parts[i].data.bytes
                       \o Concat(f.parts[i].data.refs)])
         \o Concat([i \in 1..Len(f.parts) |-> PK \o <<1, 2>> \o f.parts[i].name])
         \o PK \o <<5, 6>>

\* f and g are two of the long files and have the same first 8192 bytes
LongTwin(f, g) ==
    /\ f \in LongFiles
    /\ g # f
    /\ Read(FileImage(f), 0, 8192) = Read(FileImage(g), 0, 8192)

\* C18 as claimed: classification depends only on the file's extension and its
\* first 8192 bytes, whatever bytes follow.
C18_HeadDecides ==
    ncalls >= 1 => \A g \in LongFiles :
                      LongTwin(pre.file, g) => _file_type(g, ext) = ctx.t

\* C18 as amended: classification depends only on the file's extension, its
\* first 8192 bytes and, for a file that begins with PK and has the extension
\* .doc, .xls or .ppt, whether it opens as an archive and the entry names of
\* its directory.
C18_HeadAndDirectoryDecide ==
    ncalls >= 1 => \A g \in LongFiles :
                      (/\ LongTwin(pre.file, g)
                       /\ (StartsWith(pre.file.bytes, PK) /\ ext \in {".doc", ".xls", ".ppt"})
                             => (g.kind = pre.file.kind /\ NameSet(g) = NameSet(pre.file)))
                         => _file_type(g, ext) = ctx.t

\* a file whose WordML marker lies behind the first 8192 bytes was classified
\* 'other', as is the file with the same first 8192 bytes and no marker; and an
\* archive named .doc was classified docx, as is the archive with the same
\* first 8192 bytes and entry names and another content behind them
C18_Witness ==
    /\ ncalls >= 1
    /\ \/ /\ ext = ".xml" /\ Contains(pre.file.bytes, L_wordDocument) /\ ctx.t = "other"
          /\ \E g \in LongFiles : LongTwin(pre.file, g) /\ ~Contains(g.bytes, L_wordDocument)
                                    /\ _file_type(g, ext) = "other"
       \/ /\ ext = ".doc" /\ pre.file.kind = "zip" /\ ctx.t = "docx"
          /\ \E g \in LongFiles : LongTwin(pre.file, g) /\ NameSet(g) = NameSet(pre.file)

\* the info groups of text s from index i by the stated rule: a backslash
\* outside a group takes the next character with it, a group starts at a '{'
\* followed by '\info' and ends where RtfGroupEnd stops; each group is the pair
\* of the 0-based index of its '{' and the index behind its last character
RECURSIVE InfoSpans(_, _)
InfoSpans(s, i) ==
    IF ~(i < Len(s)) THEN <<>>
    ELSE IF s[i + 1] = 92 THEN InfoSpans(s, i + 2)
    ELSE IF s[i + 1] = 123 /\ StartsWithAt(s, L_info, i + 1)
         THEN LET j == RtfGroupEnd(s, i + 1, 1)
              IN  <<<<i, Min(j, Len(s))>>>> \o InfoSpans(s, j)
    ELSE InfoSpans(s, i + 1)

\* the characters of s from the 1-based index k on that lie in none of the spans
RECURSIVE OutsideSpans(_, _, _)
OutsideSpans(s, spans, k) ==
    IF k > Len(s) THEN <<>>
    ELSE (IF \E n \in 1..Len(spans) : spans[n][1] < k /\ k <= spans[n][2]
          THEN <<>> ELSE <<s[k]>>) \o OutsideSpans(s, spans, k + 1)

\* C21: on the text of an RTF file, the groups the scanners find are the spans
\* from an unescaped '{' followed by '\info' through the '}' that brings the
\* depth back to 0, a backslash always taking the next character with it:
\* _rtf_strip_info removes exactly these spans and keeps every other
\* character, and _rtf_info_blocks returns exactly these spans; a '\{'
\* followed by '\info' starts no group.
C21_InfoGroupSpans ==
    (file.kind = "raw" /\ StartsWith(file.bytes, RtfMagic)) =>
        LET s == _read_text_latin1(file.bytes)
            spans == InfoSpans(s, 0)
        IN  /\ _rtf_strip_info(s).out = OutsideSpans(s, spans, 1)
            /\ _rtf_strip_info(s).changed = (spans # <<>>)
            /\ _rtf_info_blocks(s)
                  = [n \in 1..Len(spans) |-> SubSeq(s, spans[n][1] + 1, spans[n][2])]

\* C22: the bytes written by a successful RTF clean are the input bytes without
\* the bytes of the removed info groups: every other byte, the high-bit bytes
\* and the line-ending bytes (CRLF, bare LF, bare CR) included, is unchanged
\* and in its original order.
C22_RtfBytesKept ==
    (CallReturned /\ res.changed /\ ctx.t = "rtf")
        => file.bytes = OutsideSpans(pre.file.bytes, InfoSpans(pre.file.bytes, 0), 1)

\* C23: after a successful Word 2003 XML clean the document holds no
\* o:DocumentProperties and no o:CustomDocumentProperties element anywhere in
\* the tree, however many the input had and whatever their parents were.
C23_NoPropertiesLeft ==
    (CallReturned /\ res.changed /\ ctx.t = "word2003xml")
        => \A i \in 1..Len(file.parts) :
              ~(file.parts[i].o
                  /\ file.parts[i].tag \in {"DocumentProperties", "CustomDocumentProperties"})

\* the stated order of the classifier for file f with suffix e: the rules, each
\* with its condition and the type it gives
ClassifierRules(f, e) ==
    LET legacy == e \in {".doc", ".xls", ".ppt"}
        probe(n) == StartsWith(f.bytes, PK) /\ legacy /\ f.kind = "zip" /\ n \in NameSet(f)
        rule(c, t) == [when |-> c, type |-> t]
    IN  << rule(StartsWith(f.bytes, JpegMagic), "jpeg"),
           rule(StartsWith(f.bytes, PngSig), "png"),
           rule(StartsWith(f.bytes, Gif87a) \/ StartsWith(f.bytes, Gif89a), "gif"),
           rule(StartsWith(f.bytes, PdfMagic), "pdf"),
           rule(StartsWith(f.bytes, RtfMagic), "rtf"),
           rule(probe(N_WordDoc), "docx"),
           rule(probe(N_XlWorkbook), "xlsx"),
           rule(probe(N_PptPres), "pptx"),
           rule(e = ".doc", "doc"), rule(e = ".xls", "xls"), rule(e = ".ppt", "ppt"),
           rule(e = ".docx", "docx"), rule(e = ".xlsx", "xlsx"), rule(e = ".pptx", "pptx"),
           rule(StartsWith(lstrip(Read(f.bytes, 0, 64)), <<60>>) /\ _is_word2003xml(f),
                "word2003xml") >>

C25_MislabelledWordML ==
    (/\ ncalls >= 1 /\ ext = ".doc"
     /\ pre.file.kind \in {"raw", "wordml"}
     /\ StartsWith(lstrip(Read(pre.file.bytes, 0, 64)), <<60>>)
     /\ _is_word2003xml(pre.file))
        => ctx.t = "word2003xml"

\* C26: for a PDF whose catalog references a /Metadata XMP stream (PDF library
\* available, external tool absent) the detection summary contains the label
\* XMP and one label per /Info key (Title, Author, Subject, Keywords, Creator,
\* Producer, CreationDate, ModDate as themselves, any other key as CustomInfo),
\* whether the bytes of the XMP stream are empty or not.
C26_PdfSummaryHasXmp ==
    (det.done /\ cap.pikepdf /\ ~cap.exiftool /\ file.kind = "pdf" /\ file.parts[1].md)
        => /\ InSeq("XMP", det.summary)
           /\ \A i \in 1..Len(file.parts[1].info) :
                 InSeq(IF file.parts[1].info[i] \in
                            {"Title", "Author", "Subject", "Keywords", "Creator",
                             "Producer", "CreationDate", "ModDate"}
                       THEN file.parts[1].info[i] ELSE "CustomInfo", det.summary)

\* C27: cleaning is complete with respect to detection: for every JPEG, PNG,
\* GIF, RTF, OOXML or Word 2003 XML file on which the native clean returned
\* changed = true, detect_file_metadata (native detector) on the cleaned file
\* yields an empty summary and can_clean = false.
C27_CleanCompletesDetect ==
    (/\ CallReturned /\ res.changed /\ ~cap.exiftool /\ det.done
     /\ ctx.t \in {"jpeg", "png", "gif", "rtf", "docx", "xlsx", "pptx", "word2003xml"})
        => (~det.raised /\ det.summary = <<>> /\ ~det.can_clean)

\* C28: every parsing loop of the native detect, clean and hash walkers (the
\* JPEG marker walk, with the length fields 0 and 1 in the hasher's relative
\* seek, the PNG chunk walk, the GIF block and sub-block walks, the RTF group
\* scan) strictly advances its read position on every iteration or leaves the
\* loop, and leaves it at the end of the input: from every offset of every
\* file that passes the walker's check of the leading bytes (for the RTF scan:
\* of the text of every RTF file) the next iteration starts further on or
\* there is none, so each walk ends after at most as many iterations as the
\* file has bytes.
C28_LoopsAdvance ==
    LET s == file.bytes
        text == _read_text_latin1(s)
        adv(n, p, q) == q = -1 \/ (q > p /\ p < n)
        walkers == {"detect", "clean", "hash"}
    IN  /\ Read(s, 0, 2) = SOI =>
              \A p \in 0..(Len(s) + 1), w \in walkers :
                 adv(Len(s), p, JpegLoopStep(s, p, w))
        /\ Read(s, 0, 8) = PngSig =>
              \A p \in 0..(Len(s) + 1), w \in walkers :
                 adv(Len(s), p, PngLoopStep(s, p, w))
        /\ Read(s, 0, 6) \in {Gif87a, Gif89a} =>
              \A p \in 0..(Len(s) + 1) :
                 /\ \A w \in walkers : adv(Len(s), p, GifLoopStep(s, p, w))
                 /\ \A copy \in BOOLEAN : adv(Len(s), p, SubBlockStep(s, p, copy))
        /\ StartsWith(s, RtfMagic) =>
              \A p \in 0..(Len(text) + 1) :
                 /\ \A w \in walkers : adv(Len(text), p, RtfLoopStep(text, p, w))
                 /\ adv(Len(text), p, RtfGroupStep(text, p))

\* compute_content_hash has walked a JPEG file whose first segment has the
\* length field 0 or 1: the hasher, having read the four bytes of marker and
\* length, sought backwards and went on behind the marker or one byte further
C28_Witness ==
    /\ hsh.done /\ hsh.desc = "JPEG scan data"
    /\ Read(file.bytes, 2, 3) = <<255, 224, 0>>
    /\ Len(file.bytes) > 6
    /\ \/ file.bytes[6] = 0 /\ JpegLoopStep(file.bytes, 2, "hash") = 4
       \/ file.bytes[6] = 1 /\ JpegLoopStep(file.bytes, 2, "hash") = 5

====
